---- MODULE Spec2Model ----
(***************************************************************************)
(* Prometheus HTTP service discovery for Confluent Cloud.                  *)
(*                                                                         *)
(* The module models                                                       *)
(*   - internal/cache: the expiring in-memory map (Set, Get, Delete,       *)
(*     cleanup),                                                           *)
(*   - internal/confluent: the collector GetAllResources with its          *)
(*     paginated listings,                                                 *)
(*   - internal/handlers: DiscoveryHandler and formatResponse,             *)
(*     AuthMiddleware and HealthHandler,                                   *)
(*   - internal/config: Load,                                              *)
(*   - cmd/main.go: the routes of the server.                              *)
(*                                                                         *)
(* SpecCache drives the cache the way cache_test.go does, with arbitrary   *)
(* Set/Get/Delete calls on several keys.  Spec is the running service:     *)
(* concurrent /discovery requests, the background sweep and the clock.     *)
(* SpecCollect, SpecQuery and SpecFormat vary the upstream data, the       *)
(* query string and the formatter's arguments; SpecLock follows the        *)
(* cache's lock through every call, SpecServe a request through the mux    *)
(* and the middleware, and SpecConfig a call of Load.  SpecMiss lets       *)
(* several requests miss together, SpecDegraded serves a catalog gathered  *)
(* under failures to a later request, and SpecDisconnect lets the callers  *)
(* go while their requests are being served.                               *)
(***************************************************************************)
EXTENDS Integers, Sequences, FiniteSets, TLC

(***************************************************************************)
(* Bounds of the model.                                                    *)
(***************************************************************************)
MaxTime == 2

\* The longest duration handed to Set in SpecCache.
MaxDuration == 2

\* The configured TTL of the service.
MaxTTL == 1

\* The number of /discovery requests of a run of the service, and the
\* number of upstream failures injected into it.
NumReq == 2

MaxFaults == 1

\* The longest prefix parameter of a request in SpecQuery.
MaxPrefixLen == 2

\* The longest catalog handed to formatResponse in SpecFormat.
MaxResources == 2

\* The number of goroutines that call Set, Get and Delete in SpecLock.
NumCallers == 2

\* The longest value of CACHE_DURATION built of any characters in
\* SpecConfig.
MaxEnvLen == 2

(***************************************************************************)
(* internal/cache/cache.go                                                 *)
(***************************************************************************)
\* The cache and the wall clock read by time.Now().
VARIABLES items, now

\* SpecCache only: the same cache driven without the sweep, the last call
\* with its result, and per key the most recent Set and whether a Delete
\* followed it.
VARIABLES noSweep, last, hist

\* Spec only: the configured TTL, the per-request state of DiscoveryHandler
\* and GetAllResources, what was observed about each request, the number
\* of upstream failures still to be injected, the shape of the upstream's
\* answers.
VARIABLES cacheDuration, req, obs, faultsLeft, upstream

\* SpecLock only: the cache's sync.RWMutex and the goroutines that call the
\* cache.  SpecServe only: the HTTP requests as they reach the server.
VARIABLES mu, goroutines, httpReq

cacheVars == <<items, now>>

unitVars == <<noSweep, last, hist>>

svcVars == <<cacheDuration, req, obs, faultsLeft, upstream>>

sideVars == <<mu, goroutines, httpReq>>

vars == <<items, now, noSweep, last, hist, cacheDuration, req, obs, faultsLeft,
          upstream, mu, goroutines, httpReq>>

\* The keys and values the cache is driven with in SpecCache.
Keys == {"key1", "key2"}

Values == {"value1", "value2"}

\* A duration may be negative or zero (time.Duration is a signed integer).
Durations == (0 - 1)..MaxDuration

\* Go's nil interface value, returned by Get on a miss.
Nil == "nil"

\* type Item struct { Value; Expiration }
Item(value, expiration) == [Value |-> value, Expiration |-> expiration]

\* func New(): an empty map (the cleanup goroutine is the Sweep action).
New == << >>

\* Set that keeps an entry that is already there.
SetIfAbsent(m, key, value, duration, t) ==
    [k \in (DOMAIN m) \cup {key} |->
        IF k \in DOMAIN m THEN m[k] ELSE Item(value, t + duration)]

\* c.items[key] = Item{Value: value, Expiration: now + duration}
Set(m, key, value, duration, t) ==
    [k \in (DOMAIN m) \cup {key} |->
        IF k = key THEN Item(value, t + duration) ELSE m[k]]

\* Get with the expiry check dropped: an entry is served as long as it is
\* physically present.
GetNoExpiry(m, key, t) ==
    IF key \notin DOMAIN m
    THEN [value |-> Nil, found |-> FALSE]
    ELSE [value |-> m[key].Value, found |-> TRUE]

\* Get with the expiry test reversed.
GetStale(m, key, t) ==
    IF key \notin DOMAIN m
    THEN [value |-> Nil, found |-> FALSE]
    ELSE IF t < m[key].Expiration
         THEN [value |-> Nil, found |-> FALSE]
         ELSE [value |-> m[key].Value, found |-> TRUE]

\* item, found := c.items[key]; not found, or now > item.Expiration: miss.
Get(m, key, t) ==
    IF key \notin DOMAIN m
    THEN [value |-> Nil, found |-> FALSE]
    ELSE IF t > m[key].Expiration
         THEN [value |-> Nil, found |-> FALSE]
         ELSE [value |-> m[key].Value, found |-> TRUE]

\* Delete that empties the whole map.
DeleteAll(m, key) == << >>

\* Delete that leaves the map alone.
DeleteNothing(m, key) == m

\* delete(c.items, key)
Delete(m, key) == [k \in (DOMAIN m) \ {key} |-> m[k]]

\* A sweep that also removes the entries whose expiry is the present
\* instant.
cleanupAtExpiry(m, t) ==
    [k \in {j \in DOMAIN m : t < m[j].Expiration} |-> m[k]]

\* for k, v := range c.items { if now > v.Expiration { delete(c.items, k) } }
cleanup(m, t) ==
    [k \in {j \in DOMAIN m : ~(t > m[j].Expiration)} |-> m[k]]

(***************************************************************************)
(* SpecCache: the cache driven call by call, as in cache_test.go.          *)
(***************************************************************************)
NoCall == [op |-> "none", key |-> Nil, value |-> Nil, found |-> FALSE,
           value2 |-> Nil, found2 |-> FALSE, present |-> FALSE]

NoHist == [set |-> FALSE, v |-> Nil, at |-> 0, ttl |-> 0, deleted |-> FALSE,
           replaced |-> FALSE]

\* sync.RWMutex: the number of goroutines holding the lock in shared mode,
\* whether one holds it in exclusive mode, and the number of goroutines
\* that have called Lock and wait for it.
IdleMu == [readerCount |-> 0, locked |-> FALSE, waiting |-> 0]

\* The mutex and the goroutines are used by SpecLock only.
LockIdle ==
    /\ mu = IdleMu
    /\ goroutines = << >>

\* The HTTP requests are used by SpecServe only.
HttpIdle == httpReq = << >>

\* The service's variables are not used by SpecCache.
SvcIdle ==
    /\ cacheDuration = 0
    /\ req = << >>
    /\ obs = << >>
    /\ faultsLeft = 0
    /\ upstream = << >>

InitCache ==
    /\ items = New
    /\ noSweep = New
    /\ now = 0
    /\ last = NoCall
    /\ hist = [k \in Keys |-> NoHist]
    /\ SvcIdle
    /\ LockIdle
    /\ HttpIdle

\* cache.Set(key, value, duration)
CallSet ==
    \E key \in Keys, value \in Values, duration \in Durations :
        /\ items' = Set(items, key, value, duration, now)
        /\ noSweep' = Set(noSweep, key, value, duration, now)
        /\ last' = [NoCall EXCEPT !.op = "Set", !.key = key, !.value = value,
                                  !.present = key \in DOMAIN items]
        /\ hist' = [hist EXCEPT ![key] =
                        [set |-> TRUE, v |-> value, at |-> now, ttl |-> duration,
                         deleted |-> FALSE,
                         replaced |-> /\ key \in DOMAIN items
                                      /\ items[key].Value # value]]
        /\ UNCHANGED <<now, svcVars, sideVars>>

\* value, found := cache.Get(key)
CallGet ==
    \E key \in Keys :
        /\ last' = [NoCall EXCEPT !.op = "Get", !.key = key,
                                  !.value = Get(items, key, now).value,
                                  !.found = Get(items, key, now).found,
                                  !.value2 = Get(noSweep, key, now).value,
                                  !.found2 = Get(noSweep, key, now).found,
                                  !.present = key \in DOMAIN items]
        /\ UNCHANGED <<items, noSweep, now, hist, svcVars, sideVars>>

\* cache.Delete(key)
CallDelete ==
    \E key \in Keys :
        /\ items' = Delete(items, key)
        /\ noSweep' = Delete(noSweep, key)
        /\ last' = [NoCall EXCEPT !.op = "Delete", !.key = key,
                                  !.present = key \in DOMAIN items]
        /\ hist' = [hist EXCEPT ![key].deleted = TRUE]
        /\ UNCHANGED <<now, svcVars, sideVars>>

\* startCleanupTimer: the ticker fires and cleanup runs.  noSweep is the
\* cache whose ticker never fires.
CallCleanup ==
    /\ items' = cleanup(items, now)
    /\ last' = [NoCall EXCEPT !.op = "cleanup"]
    /\ UNCHANGED <<noSweep, now, hist, svcVars, sideVars>>

\* Time passes.
TickCache ==
    /\ now < MaxTime
    /\ now' = now + 1
    /\ last' = [NoCall EXCEPT !.op = "tick"]
    /\ UNCHANGED <<items, noSweep, hist, svcVars, sideVars>>

NextCache ==
    \/ CallSet
    \/ CallGet
    \/ CallDelete
    \/ CallCleanup
    \/ TickCache

SpecCache == InitCache /\ [][NextCache]_vars

(***************************************************************************)
(* Properties of the cache, checked under SpecCache.                       *)
(***************************************************************************)

\* C1: Get(key) at time now returns found only if key holds an entry that
\* was not deleted since its most recent Set and whose Expiration, equal to
\* the time of that Set plus its ttl, has not passed; once now is later
\* than the Expiration Get returns (nil, false), swept or not.
C1_GetOnlyBeforeExpiry ==
    last.op = "Get" =>
        LET h == hist[last.key] IN
        /\ last.found =>
              /\ h.set /\ ~h.deleted
              /\ last.key \in DOMAIN items
              /\ items[last.key].Expiration = h.at + h.ttl
              /\ ~(now > h.at + h.ttl)
        /\ (h.set /\ now > h.at + h.ttl) => (~last.found /\ last.value = Nil)

\* A Get that finds an entry on the last instant of its life, some time
\* after the Set.
C1_Witness ==
    /\ last.op = "Get"
    /\ last.found
    /\ hist[last.key].at < now
    /\ now = hist[last.key].at + hist[last.key].ttl

\* C7: a Get before the positive ttl of the most recent Set elapses, with
\* no Delete in between, returns that Set's value; a key never set is not
\* found.
C7_SetThenGet ==
    last.op = "Get" =>
        LET h == hist[last.key] IN
        /\ (h.set /\ ~h.deleted /\ h.ttl > 0 /\ now < h.at + h.ttl)
              => (last.found /\ last.value = h.v)
        /\ ~h.set => (~last.found /\ last.value = Nil)

\* A Get that returns the value of a Set which replaced another value.
C7_Witness ==
    /\ last.op = "Get"
    /\ last.found
    /\ hist[last.key].replaced
    /\ hist[last.key].ttl > 0
    /\ last.value = hist[last.key].v

\* C8: after Delete(k) and until the next Set(k), Get(k) is not found,
\* also while the deleted entry's ttl has not elapsed.
C8_DeleteThenGet ==
    (last.op = "Get" /\ hist[last.key].deleted)
        => (~last.found /\ last.value = Nil)

\* A Get after the Delete of an entry whose ttl has not elapsed.
C8_Witness ==
    /\ last.op = "Get"
    /\ hist[last.key].set
    /\ hist[last.key].deleted
    /\ now < hist[last.key].at + hist[last.key].ttl
    /\ ~last.found

\* C9: a Delete(k) step leaves every other key as it was, present or
\* absent, with its value and expiry; when k is absent the map is unchanged.
C9_DeleteFrame ==
    [][last'.op = "Delete" =>
        /\ \A k \in Keys \ {last'.key} :
              /\ (k \in DOMAIN items') <=> (k \in DOMAIN items)
              /\ k \in DOMAIN items => items'[k] = items[k]
        /\ last'.key \notin DOMAIN items => items' = items]_vars

\* A Delete of a present key that left another entry in the map.
C9_Witness ==
    /\ last.op = "Delete"
    /\ last.present
    /\ \E k \in Keys \ {last.key} : k \in DOMAIN items

\* C10: every Get returns the same (value, found) on the swept cache and
\* on the cache that is never swept; an expired entry that is still in the
\* map is not found.
C10_SweepIndependent ==
    last.op = "Get" =>
        /\ last.found = last.found2
        /\ last.value = last.value2
        /\ (last.present /\ now > items[last.key].Expiration) => ~last.found

\* A Get of an entry that the sweep removed and the unswept cache still
\* holds.
C10_Witness ==
    /\ last.op = "Get"
    /\ last.key \in DOMAIN noSweep
    /\ last.key \notin DOMAIN items
    /\ ~last.found
    /\ ~last.found2


(***************************************************************************)
(* The upstream API, as seen by internal/confluent/client.go.              *)
(*                                                                         *)
(* A listing is a function from page token to page; the request without    *)
(* page_token (token "") returns the first page, and a page's Next is the  *)
(* token of the page after it, "" on the last page.                        *)
(***************************************************************************)
NoToken == ""

Page(data, next) == [Data |-> data, Next |-> next]

Env(id, name) == [ID |-> id, Name |-> name]

\* KafkaCluster, KsqlDB and ComputePool records: id and spec.
Rec(id, name, cloud, region) ==
    [ID |-> id, DisplayName |-> name, Cloud |-> cloud, Region |-> region]

\* The JSON values a Schema Registry record's region arrives as.
RegionAbsent == [kind |-> "absent"]

RegionString(s) == [kind |-> "string", str |-> s]

RegionObject(fields) == [kind |-> "object", fields |-> fields]

JString(s) == [t |-> "string", v |-> s]

JNumber(n) == [t |-> "number", v |-> n]

SRRec(id, name, cloud, region, package) ==
    [ID |-> id, DisplayName |-> name, Cloud |-> cloud, Region |-> region,
     Package |-> package]

EnvironmentPages ==
    (NoToken :> Page(<<Env("env-1", "prod")>>, "env-p2"))
    @@ ("env-p2" :> Page(<<Env("env-2", "staging")>>, NoToken))

KafkaPages(environmentID) ==
    IF environmentID = "env-1"
    THEN (NoToken :> Page(<<Rec("lkc-1", "main", "aws", "us-east-1")>>, NoToken))
    ELSE (NoToken :> Page(<<Rec("lkc-2", "stage-a", "gcp", "us-west-2")>>, "k-p2"))
         @@ ("k-p2" :> Page(<<Rec("lkc-3", "stage-b", "", "europe-west1")>>,
                            NoToken))

ConnectorNames(environmentID, clusterID) ==
    CASE clusterID = "lkc-1" -> <<"conn-a">>
      [] clusterID = "lkc-3" -> <<"conn-b", "conn-c">>
      [] OTHER -> << >>

SchemaRegistryPages(environmentID, up) ==
    IF environmentID = "env-1"
    THEN (NoToken :> Page(<<SRRec("lsrc-1", "sr-prod", "aws",
                                  RegionObject([id |-> JString("us-east-2")]),
                                  "advanced")>>, NoToken))
    ELSE (NoToken :> Page(<<SRRec("lsrc-2", "sr-stage", "", up.srRegion, "")>>,
                          NoToken))

KsqlPages(environmentID) ==
    IF environmentID = "env-1"
    THEN (NoToken :> Page(<<Rec("lksqlc-1", "ksql-prod", "", "us-east-1"),
                            Rec("lksqlc-2", "ksql-test", "aws", "us-east-1")>>,
                          NoToken))
    ELSE (NoToken :> Page(<< >>, NoToken))

ComputePoolPages(environmentID) ==
    IF environmentID = "env-1"
    THEN (NoToken :> Page(<<Rec("lfcp-1", "pool-prod", "aws", "us-east-1")>>,
                          NoToken))
    ELSE (NoToken :> Page(<<Rec("lfcp-2", "pool-stage", "", "westeurope")>>,
                          NoToken))

\* The shapes of the region of the second environment's Schema Registry.
RegionShapes ==
    {RegionAbsent,
     RegionString("us-west-2"),
     RegionObject([id |-> JString("us-west-2")]),
     RegionObject([id |-> JNumber(7)]),
     RegionObject([name |-> JString("us-west-2")])}

\* The listings of the upstream.
Listings ==
    {"environments", "kafka", "connector", "schema_registry", "ksql",
     "compute_pool"}


(***************************************************************************)
(* internal/confluent/client.go: makeRequest and the listings.             *)
(*                                                                         *)
(* A fault names the request of a listing that the upstream fails (at,     *)
(* the ordinal of the request, 0 for none) and how: the transport fails,   *)
(* the status is not 200, or the body is not the JSON the client decodes.  *)
(***************************************************************************)
Causes == {"transport", "status", "malformed"}

\* The upstream of Spec: the second Schema Registry's region has no id,
\* and only the environment listing and the Schema Registry listing ever
\* fail, the first in any of the three ways (causes), the second with a
\* status that is not 200 (subCauses).
ServiceUpstream ==
    [srRegion |-> RegionObject([name |-> JString("us-west-2")]),
     faulty |-> {"environments", "schema_registry"},
     causes |-> Causes,
     subCauses |-> {"status"}]

\* The upstreams of SpecCollect: every region shape, failures of every
\* listing, all failures of a run in the same way.
CollectUpstreams ==
    {[srRegion |-> shape, faulty |-> Listings, causes |-> {c},
      subCauses |-> {c}] : shape \in RegionShapes, c \in Causes}

Fault(at, cause) == [at |-> at, cause |-> cause]

NoFault == Fault(0, "none")

\* The faults on the first n requests of a listing, and no fault.
Faults(n, causes) ==
    {NoFault} \cup {Fault(at, cause) : at \in 1..n, cause \in causes}

\* What the upstream sends for the n-th request of a listing.
UpstreamAnswer(page, fault, n) ==
    IF fault.at # n
    THEN [sent |-> TRUE, StatusCode |-> 200, wellFormed |-> TRUE, page |-> page]
    ELSE CASE fault.cause = "transport" ->
                [sent |-> FALSE, StatusCode |-> 0, wellFormed |-> FALSE,
                 page |-> Page(<< >>, NoToken)]
           [] fault.cause = "status" ->
                [sent |-> TRUE, StatusCode |-> 500, wellFormed |-> TRUE,
                 page |-> Page(<< >>, NoToken)]
           [] OTHER ->
                [sent |-> TRUE, StatusCode |-> 200, wellFormed |-> FALSE,
                 page |-> Page(<< >>, NoToken)]

\* makeRequest: an error when c.httpClient.Do fails or the status is not
\* http.StatusOK, otherwise the body.
makeRequest(answer) ==
    IF ~answer.sent
    THEN [err |-> TRUE]
    ELSE IF answer.StatusCode # 200
    THEN [err |-> TRUE]
    ELSE [err |-> FALSE, body |-> answer]

\* json.Unmarshal(body, &resp): an error on a malformed body and on a body
\* whose fields do not fit the Go type (typed: the page is one of those).
Unmarshal(body, typed) ==
    IF body.wellFormed /\ typed
    THEN [err |-> FALSE, resp |-> body.page]
    ELSE [err |-> TRUE]

\* What a listing returns: nil and the error, or the records.
Failed(n) == [err |-> TRUE, data |-> << >>, requests |-> n]

Listed(data, n) == [err |-> FALSE, data |-> data, requests |-> n]

RECURSIVE listPages(_, _, _, _, _, _)
\* A listing that returns after its first request, whatever the page's
\* continuation token.
listFirstPage(pages, undecodable, nextPageToken, all, fault, n) ==
    LET body == makeRequest(UpstreamAnswer(pages[nextPageToken], fault, n + 1))
    IN  IF body.err
        THEN Failed(n + 1)
        ELSE LET decoded == Unmarshal(body.body, nextPageToken \notin undecodable)
             IN  IF decoded.err
                 THEN Failed(n + 1)
                 ELSE Listed(all \o decoded.resp.Data, n + 1)

\* A listing that, when a request after the first one fails, returns the
\* records of the pages it has fetched.
listPagesFetched(pages, undecodable, nextPageToken, all, fault, n) ==
    LET body == makeRequest(UpstreamAnswer(pages[nextPageToken], fault, n + 1))
        given == IF n = 0 THEN Failed(1) ELSE Listed(all, n + 1)
    IN  IF body.err
        THEN given
        ELSE LET decoded == Unmarshal(body.body, nextPageToken \notin undecodable)
             IN  IF decoded.err
                 THEN given
                 ELSE IF decoded.resp.Next = NoToken
                 THEN Listed(all \o decoded.resp.Data, n + 1)
                 ELSE listPages(pages, undecodable, decoded.resp.Next,
                                all \o decoded.resp.Data, fault, n + 1)

\* The for loop shared by GetEnvironments, GetKafkaClusters,
\* GetSchemaRegistries, GetKsqlDBs and GetComputePools.  all is the slice
\* accumulated so far, n the number of requests issued so far, undecodable
\* the tokens of the pages whose records do not fit the Go type.
listPages(pages, undecodable, nextPageToken, all, fault, n) ==
    LET body == makeRequest(UpstreamAnswer(pages[nextPageToken], fault, n + 1))
    IN  IF body.err
        THEN Failed(n + 1)
        ELSE LET decoded == Unmarshal(body.body, nextPageToken \notin undecodable)
             IN  IF decoded.err
                 THEN Failed(n + 1)
                 ELSE IF decoded.resp.Next = NoToken
                 THEN Listed(all \o decoded.resp.Data, n + 1)
                 ELSE listPages(pages, undecodable, decoded.resp.Next,
                                all \o decoded.resp.Data, fault, n + 1)

\* GetEnvironments that stops paging at a failed request and returns the
\* environments of the pages before it.
GetEnvironmentsPartial(fault) ==
    LET out == listPages(EnvironmentPages, {}, NoToken, << >>, fault, 0)
    IN  IF out.err /\ fault.at > 1
        THEN Listed(EnvironmentPages[NoToken].Data, out.requests)
        ELSE out

GetEnvironments(fault) ==
    listPages(EnvironmentPages, {}, NoToken, << >>, fault, 0)

GetKafkaClusters(environmentID, fault) ==
    listPages(KafkaPages(environmentID), {}, NoToken, << >>, fault, 0)

\* SchemaRegistrySpec.Region is declared map[string]interface{}: an absent
\* region and a JSON object fit, a JSON string does not.
FitsRegion(region) == region.kind \in {"absent", "object"}

GetSchemaRegistries(environmentID, up, fault) ==
    LET pages == SchemaRegistryPages(environmentID, up)
        bad == {tok \in DOMAIN pages :
                  \E i \in 1..Len(pages[tok].Data) :
                      ~FitsRegion(pages[tok].Data[i].Region)}
    IN  listPages(pages, bad, NoToken, << >>, fault, 0)

GetKsqlDBs(environmentID, fault) ==
    listPages(KsqlPages(environmentID), {}, NoToken, << >>, fault, 0)

GetComputePools(environmentID, fault) ==
    listPages(ComputePoolPages(environmentID), {}, NoToken, << >>, fault, 0)

\* GetConnectors with the two ids exchanged in the connector objects.
GetConnectorsExchanged(environmentID, clusterID, fault) ==
    LET connectorNames == ConnectorNames(environmentID, clusterID)
        body == makeRequest(UpstreamAnswer(Page(connectorNames, NoToken),
                                           fault, 1))
    IN  IF body.err
        THEN Failed(1)
        ELSE LET decoded == Unmarshal(body.body, TRUE)
             IN  IF decoded.err
                 THEN Failed(1)
                 ELSE Listed([i \in 1..Len(decoded.resp.Data) |->
                                [ID |-> decoded.resp.Data[i],
                                 ClusterID |-> environmentID,
                                 Environment |-> clusterID]], 1)

\* GetConnectors: one request, answered with a JSON array of names.
GetConnectors(environmentID, clusterID, fault) ==
    LET connectorNames == ConnectorNames(environmentID, clusterID)
        body == makeRequest(UpstreamAnswer(Page(connectorNames, NoToken),
                                           fault, 1))
    IN  IF body.err
        THEN Failed(1)
        ELSE LET decoded == Unmarshal(body.body, TRUE)
             IN  IF decoded.err
                 THEN Failed(1)
                 ELSE Listed([i \in 1..Len(decoded.resp.Data) |->
                                [ID |-> decoded.resp.Data[i],
                                 ClusterID |-> clusterID,
                                 Environment |-> environmentID]], 1)

(***************************************************************************)
(* internal/confluent/client.go: GetAllResources.                          *)
(***************************************************************************)
Resource(id, resourceType, labels) ==
    [ID |-> id, ResourceType |-> resourceType, Labels |-> labels]

\* The cloud field taken as it is.
CloudProviderRaw(cloud) == cloud

\* if cloudProvider == "" { cloudProvider = "unknown" }
CloudProvider(cloud) == IF cloud = "" THEN "unknown" ELSE cloud

\* regionVal, ok := sr.Spec.Region["id"]; regionStr, ok = regionVal.(string)
RegionStr(region) ==
    IF region.kind = "object" /\ "id" \in DOMAIN region.fields
    THEN IF region.fields["id"].t = "string"
         THEN region.fields["id"].v
         ELSE "unknown"
    ELSE "unknown"

KafkaResource(env, cluster) ==
    Resource(cluster.ID, "kafka",
             [cloud_provider |-> CloudProvider(cluster.Cloud),
              environment_name |-> env.Name,
              cluster_name |-> cluster.DisplayName,
              region |-> cluster.Region])

ConnectorResource(env, cluster, connector) ==
    Resource(connector.ID, "connector",
             [cloud_provider |-> CloudProvider(cluster.Cloud),
              environment_name |-> env.Name,
              connector_name |-> connector.ID,
              cluster_id |-> connector.ClusterID,
              region |-> cluster.Region])

SchemaRegistryResource(env, sr) ==
    Resource(sr.ID, "schema_registry",
             IF sr.Package # ""
             THEN [cloud_provider |-> CloudProvider(sr.Cloud),
                   environment_name |-> env.Name,
                   name |-> sr.DisplayName,
                   region |-> RegionStr(sr.Region),
                   package |-> sr.Package]
             ELSE [cloud_provider |-> CloudProvider(sr.Cloud),
                   environment_name |-> env.Name,
                   name |-> sr.DisplayName,
                   region |-> RegionStr(sr.Region)])

NamedResource(env, rec, resourceType) ==
    Resource(rec.ID, resourceType,
             [cloud_provider |-> CloudProvider(rec.Cloud),
              environment_name |-> env.Name,
              name |-> rec.DisplayName,
              region |-> rec.Region])

\* What one part of the loop body hands on: the resources it appended, the
\* upstream requests it issued, the sub-fetches it logged as failed.
Part(resources, requests, warnings) ==
    [resources |-> resources, requests |-> requests, warnings |-> warnings]

RECURSIVE clusterLoop(_, _, _)
\* A loop that appends the cluster's Kafka resource together with its
\* connectors, after their listing succeeded.
clusterLoopKafkaWithConnectors(env, kafkaClusters, connFaults) ==
    IF kafkaClusters = << >>
    THEN Part(<< >>, 0, {})
    ELSE LET cluster == Head(kafkaClusters)
             connectors == GetConnectors(env.ID, cluster.ID,
                                         connFaults[cluster.ID])
             rest == clusterLoop(env, Tail(kafkaClusters), connFaults)
         IN  Part((IF connectors.err
                   THEN << >>
                   ELSE <<KafkaResource(env, cluster)>>
                        \o [i \in 1..Len(connectors.data) |->
                              ConnectorResource(env, cluster,
                                                connectors.data[i])])
                    \o rest.resources,
                  connectors.requests + rest.requests,
                  (IF connectors.err
                   THEN {<<env.ID, "connector", cluster.ID>>}
                   ELSE {}) \cup rest.warnings)

\* for _, cluster := range kafkaClusters: the cluster's Kafka resource, then
\* its connectors unless their listing failed.
clusterLoop(env, kafkaClusters, connFaults) ==
    IF kafkaClusters = << >>
    THEN Part(<< >>, 0, {})
    ELSE LET cluster == Head(kafkaClusters)
             connectors == GetConnectors(env.ID, cluster.ID,
                                         connFaults[cluster.ID])
             rest == clusterLoop(env, Tail(kafkaClusters), connFaults)
         IN  Part(<<KafkaResource(env, cluster)>>
                    \o (IF connectors.err
                        THEN << >>
                        ELSE [i \in 1..Len(connectors.data) |->
                                ConnectorResource(env, cluster,
                                                  connectors.data[i])])
                    \o rest.resources,
                  connectors.requests + rest.requests,
                  (IF connectors.err
                   THEN {<<env.ID, "connector", cluster.ID>>}
                   ELSE {}) \cup rest.warnings)

KafkaPart(env, f) ==
    LET kafkaClusters == GetKafkaClusters(env.ID, f.kafka)
    IN  IF kafkaClusters.err
        THEN Part(<< >>, kafkaClusters.requests, {<<env.ID, "kafka">>})
        ELSE LET loop == clusterLoop(env, kafkaClusters.data, f.conn)
             IN  Part(loop.resources, kafkaClusters.requests + loop.requests,
                      loop.warnings)

SchemaRegistryPart(env, up, f) ==
    LET schemaRegistries == GetSchemaRegistries(env.ID, up, f.sr)
    IN  IF schemaRegistries.err
        THEN Part(<< >>, schemaRegistries.requests,
                  {<<env.ID, "schema_registry">>})
        ELSE Part([i \in 1..Len(schemaRegistries.data) |->
                     SchemaRegistryResource(env, schemaRegistries.data[i])],
                  schemaRegistries.requests, {})

\* A KSQL part that, when the listing fails, puts a resource without the
\* labels of the record in the place of what it could not list.
KsqlPartPlaceholder(env, f) ==
    LET ksqlDBs == GetKsqlDBs(env.ID, f.ksql)
    IN  IF ksqlDBs.err
        THEN Part(<<Resource("unknown", "ksql", [environment_name |-> env.Name])>>,
                  ksqlDBs.requests, {<<env.ID, "ksql">>})
        ELSE Part([i \in 1..Len(ksqlDBs.data) |->
                     NamedResource(env, ksqlDBs.data[i], "ksql")],
                  ksqlDBs.requests, {})

KsqlPart(env, f) ==
    LET ksqlDBs == GetKsqlDBs(env.ID, f.ksql)
    IN  IF ksqlDBs.err
        THEN Part(<< >>, ksqlDBs.requests, {<<env.ID, "ksql">>})
        ELSE Part([i \in 1..Len(ksqlDBs.data) |->
                     NamedResource(env, ksqlDBs.data[i], "ksql")],
                  ksqlDBs.requests, {})

ComputePoolPart(env, f) ==
    LET computePools == GetComputePools(env.ID, f.pool)
    IN  IF computePools.err
        THEN Part(<< >>, computePools.requests, {<<env.ID, "compute_pool">>})
        ELSE Part([i \in 1..Len(computePools.data) |->
                     NamedResource(env, computePools.data[i], "compute_pool")],
                  computePools.requests, {})

\* A loop body that leaves the environment at the first failed listing
\* (a "continue" where the code only logs).
ProcessEnvLeaving(env, up, f) ==
    LET k == KafkaPart(env, f)
        s == SchemaRegistryPart(env, up, f)
        q == KsqlPart(env, f)
        c == ComputePoolPart(env, f)
    IN  IF k.warnings # {}
        THEN k
        ELSE IF s.warnings # {}
        THEN Part(k.resources, k.requests + s.requests, s.warnings)
        ELSE IF q.warnings # {}
        THEN Part(k.resources \o s.resources,
                  k.requests + s.requests + q.requests, q.warnings)
        ELSE Part(k.resources \o s.resources \o q.resources \o c.resources,
                  k.requests + s.requests + q.requests + c.requests,
                  c.warnings)

\* The body of "for _, env := range environments": Kafka clusters with
\* their connectors, Schema Registry, KSQL, compute pools, in this order.
\* A loop body that lists the Schema Registry before the Kafka clusters.
ProcessEnvRegistryFirst(env, up, f) ==
    LET k == KafkaPart(env, f)
        s == SchemaRegistryPart(env, up, f)
        q == KsqlPart(env, f)
        c == ComputePoolPart(env, f)
    IN  Part(s.resources \o k.resources \o q.resources \o c.resources,
             k.requests + s.requests + q.requests + c.requests,
             k.warnings \cup s.warnings \cup q.warnings \cup c.warnings)

ProcessEnv(env, up, f) ==
    LET k == KafkaPart(env, f)
        s == SchemaRegistryPart(env, up, f)
        q == KsqlPart(env, f)
        c == ComputePoolPart(env, f)
    IN  Part(k.resources \o s.resources \o q.resources \o c.resources,
             k.requests + s.requests + q.requests + c.requests,
             k.warnings \cup s.warnings \cup q.warnings \cup c.warnings)

(***************************************************************************)
(* internal/handlers: DiscoveryHandler and formatResponse.                 *)
(*                                                                         *)
(* The query parameters are sequences of characters; Str turns one into    *)
(* the string used as a label-key prefix or a target.                      *)
(***************************************************************************)
cacheKey == "confluent_resources"

Lower == {"a", "b", "c", "d", "e", "f", "g", "h", "i", "j", "k", "l", "m",
          "n", "o", "p", "q", "r", "s", "t", "u", "v", "w", "x", "y", "z"}

Upper == {"A", "B", "C", "D", "E", "F", "G", "H", "I", "J", "K", "L", "M",
          "N", "O", "P", "Q", "R", "S", "T", "U", "V", "W", "X", "Y", "Z"}

Digit == {"0", "1", "2", "3", "4", "5", "6", "7", "8", "9"}

RECURSIVE Str(_)
Str(cs) == IF cs = << >> THEN "" ELSE Head(cs) \o Str(Tail(cs))

\* regexp [a-zA-Z0-9_]*, without the anchors: it matches in every string.
validPrefixPatternUnanchored(prefix) == TRUE

\* regexp ^[a-zA-Z0-9_]*$
validPrefixPattern(prefix) ==
    \A i \in 1..Len(prefix) : prefix[i] \in Lower \cup Upper \cup Digit \cup {"_"}

\* A handler that appends "_" to every non-empty prefix.
HasSuffixUnderscoreNever(prefix) == FALSE

\* strings.HasSuffix(prefix, "_")
HasSuffixUnderscore(prefix) == Len(prefix) > 0 /\ prefix[Len(prefix)] = "_"

RECURSIVE splitFrom(_, _)
\* strings.Split(s, ","): cur is the piece being read.
splitFrom(cs, cur) ==
    IF cs = << >>
    THEN <<Str(cur)>>
    ELSE IF Head(cs) = ","
         THEN <<Str(cur)>> \o splitFrom(Tail(cs), << >>)
         ELSE splitFrom(Tail(cs), Append(cur, Head(cs)))

Split(cs) == splitFrom(cs, << >>)

\* A formatter that puts the prefix behind the key.
PrefixLabelsBehind(labels, prefix) ==
    [pk \in {k \o prefix : k \in DOMAIN labels} |->
        labels[CHOOSE k \in DOMAIN labels : k \o prefix = pk]]

\* target.Labels[prefix+k] = v for every label of the resource.
PrefixLabels(labels, prefix) ==
    [pk \in {prefix \o k : k \in DOMAIN labels} |->
        labels[CHOOSE k \in DOMAIN labels : prefix \o k = pk]]

\* A formatter that derives the parameter key from any kind.
ParamsOfAnyKind(resource) ==
    ("resource." \o resource.ResourceType \o ".id") :> <<resource.ID>>

\* switch resource.ResourceType
ParamsOf(resource) ==
    CASE resource.ResourceType = "kafka" ->
            ("resource.kafka.id" :> <<resource.ID>>)
      [] resource.ResourceType = "schema_registry" ->
            ("resource.schema_registry.id" :> <<resource.ID>>)
      [] resource.ResourceType = "ksql" ->
            ("resource.ksql.id" :> <<resource.ID>>)
      [] resource.ResourceType = "compute_pool" ->
            ("resource.compute_pool.id" :> <<resource.ID>>)
      [] resource.ResourceType = "connector" ->
            ("resource.connector.id" :> <<resource.ID>>)
      [] OTHER -> << >>

\* A formatter that makes each resource's id the target of its group.
formatResponseOwnTargets(resources, targets, prefix) ==
    [i \in 1..Len(resources) |->
        [Targets |-> <<resources[i].ID>>,
         Labels |-> PrefixLabels(resources[i].Labels, prefix),
         Params |-> ParamsOf(resources[i])]]

\* A formatter that emits the groups from the last resource to the first.
formatResponseReversed(resources, targets, prefix) ==
    [i \in 1..Len(resources) |->
        [Targets |-> targets,
         Labels |-> PrefixLabels(resources[Len(resources) + 1 - i].Labels, prefix),
         Params |-> ParamsOf(resources[Len(resources) + 1 - i])]]

\* for _, resource := range resources: one Target per resource.
formatResponse(resources, targets, prefix) ==
    [i \in 1..Len(resources) |->
        [Targets |-> targets,
         Labels |-> PrefixLabels(resources[i].Labels, prefix),
         Params |-> ParamsOf(resources[i])]]

\* A formatter whose groups share the label maps of the resources: the
\* prefixed labels are written into the maps of the catalog it was handed.
formatResponseSharingLabels(resources, targets, prefix) ==
    [i \in 1..Len(resources) |->
        [resources[i] EXCEPT
            !.Labels = PrefixLabels(resources[i].Labels, prefix)
                       @@ resources[i].Labels]]

\* The catalog as formatResponse leaves it: the slice and the label maps
\* it was handed are only read (Labels: make(map[string]string) is a new
\* map for every group).
formatResponseLeaves(resources, targets, prefix) == resources

\* json.NewEncoder(w).Encode(response): a slice that nothing was appended
\* to (var response []Target) is nil and is written as null; a slice with
\* elements is written as the array of its elements.
Encode(response) ==
    IF response = << >>
    THEN [json |-> "null"]
    ELSE [json |-> "array", elements |-> response]

\* An HTTP answer.
Answer(status, body) == [status |-> status, body |-> body]

NoAnswer == Answer(0, << >>)

\* A handler that checks the prefix before the targets.
ParseQueryPrefixFirst(q) ==
    IF q.prefix # << >> /\ ~validPrefixPattern(q.prefix)
    THEN [bad |-> TRUE,
          answer |-> Answer(400, "Invalid 'prefix' parameter. Must contain only alphanumeric characters and underscores")]
    ELSE IF q.targets = << >>
    THEN [bad |-> TRUE,
          answer |-> Answer(400, "Missing required 'targets' parameter")]
    ELSE [bad |-> FALSE,
          targetsList |-> Split(q.targets),
          prefix |-> IF q.prefix # << >> /\ ~HasSuffixUnderscore(q.prefix)
                     THEN Str(q.prefix) \o "_"
                     ELSE Str(q.prefix)]

\* Lines 38-58: the targets check, the prefix check, the trailing "_".
ParseQuery(q) ==
    IF q.targets = << >>
    THEN [bad |-> TRUE,
          answer |-> Answer(400, "Missing required 'targets' parameter")]
    ELSE IF q.prefix # << >> /\ ~validPrefixPattern(q.prefix)
    THEN [bad |-> TRUE,
          answer |-> Answer(400, "Invalid 'prefix' parameter. Must contain only alphanumeric characters and underscores")]
    ELSE [bad |-> FALSE,
          targetsList |-> Split(q.targets),
          prefix |-> IF q.prefix # << >> /\ ~HasSuffixUnderscore(q.prefix)
                     THEN Str(q.prefix) \o "_"
                     ELSE Str(q.prefix)]

\* A handler that drops the cached catalog when it rejects a request.
RejectClearing(m, query) == [items |-> New, answer |-> query.answer]

\* Lines 39-42 and 49-52: http.Error with status 400 and return; the
\* cache, read once at line 35, is left as it is.
Reject(m, query) == [items |-> m, answer |-> query.answer]

\* A handler that refreshes on every request.
AlwaysFetch(found) == TRUE

\* var resourcesNeedFetching = !found
resourcesNeedFetching(found) == ~found

\* A handler that does not cache a catalog without resources.
StoreFetchedUnlessEmpty(m, resources, err, query, ttl, t) ==
    IF err
    THEN [items |-> m,
          answer |-> Answer(500, "Failed to fetch resources from Confluent API")]
    ELSE [items |-> IF resources = << >>
                    THEN m
                    ELSE Set(m, cacheKey, resources, ttl, t),
          answer |-> Answer(200, formatResponse(resources, query.targetsList,
                                                query.prefix))]

\* A handler that caches an empty catalog when the collection failed.
StoreFetchedAlways(m, resources, err, query, ttl, t) ==
    [items |-> Set(m, cacheKey, resources, ttl, t),
     answer |-> IF err
                THEN Answer(500, "Failed to fetch resources from Confluent API")
                ELSE Answer(200, formatResponse(resources, query.targetsList,
                                                query.prefix))]

\* Lines 68-84 on the miss path: answer 500 on an error, otherwise cache the
\* catalog and format it.
StoreFetched(m, resources, err, query, ttl, t) ==
    IF err
    THEN [items |-> m,
          answer |-> Answer(500, "Failed to fetch resources from Confluent API")]
    ELSE [items |-> Set(m, cacheKey,
                        formatResponseLeaves(resources, query.targetsList,
                                             query.prefix),
                        ttl, t),
          answer |-> Answer(200, formatResponse(resources, query.targetsList,
                                                query.prefix))]


(***************************************************************************)
(* Spec: the running service.                                              *)
(*                                                                         *)
(* A request r goes through DiscoveryHandler (cache.Get, parameter         *)
(* checks, and on a hit the answer), then, on a miss, through              *)
(* GetAllResources: the environment listing, one loop iteration per        *)
(* environment, and the return into the handler, which caches and answers. *)
(* Requests are numbered in the order of their arrival.                    *)
(***************************************************************************)
Reqs == 1..NumReq

TA == <<"m", ":", "4", "4", "3">>

TB == <<"a", ",", "b">>

PA == <<"c", "c">>

PC == <<"b", "-">>

Query(targets, prefix) == [targets |-> targets, prefix |-> prefix]

\* The query strings the requests are drawn from.
Queries ==
    {Query(TA, PA), Query(TB, << >>), Query(<< >>, PC)}

Collecting == {"GetEnvironments", "ProcessEnv"}

\* The catalog's entry is in the map and its expiry has not passed at t.
Live(m, t) == cacheKey \in DOMAIN m /\ ~(t > m[cacheKey].Expiration)

IdleReq ==
    [pc |-> "idle", q |-> Query(<< >>, << >>), environments |-> << >>, i |-> 0,
     resources |-> << >>, answer |-> NoAnswer]

\* What is recorded about a request: whether the catalog's entry was live
\* when it arrived and which write of the cache that entry was (the writes
\* are numbered 1, 2, ...; 0 is none), whether another request was being
\* served then, the number of GetAllResources calls it made, the page of
\* the environment listing that the upstream failed, the sub-fetch requests
\* it issued, the sub-fetches that the upstream failed, the sub-fetches
\* that GetAllResources logged a warning for, whether GetAllResources
\* returned a catalog, the number of its own write, the number of
\* cache.Get calls it made, and the JSON value its 200 answer was written
\* as.
NoObs ==
    [seenLive |-> FALSE, seenWrite |-> 0, overlapped |-> FALSE, ran |-> 0,
     gets |-> 0, encoded |-> "none",
     envFault |-> NoFault, subFetches |-> 0, injected |-> {}, warned |-> {},
     returned |-> FALSE, write |-> 0]

Max(S) == IF S = {} THEN 0 ELSE CHOOSE n \in S : \A k \in S : k <= n

\* The number of writes of the cache so far.
Writes(o) == Max({o[r].write : r \in DOMAIN o})

NumPages(pages) == Cardinality(DOMAIN pages)

RECURSIVE idsOf(_, _)
idsOf(pages, token) ==
    LET here == [i \in 1..Len(pages[token].Data) |-> pages[token].Data[i].ID]
    IN  IF pages[token].Next = NoToken
        THEN here
        ELSE here \o idsOf(pages, pages[token].Next)

\* The ids a listing holds, in page order.
UpstreamIDs(pages) == idsOf(pages, NoToken)

Range(seq) == {seq[i] : i \in 1..Len(seq)}

ClusterIDs(env) == Range(UpstreamIDs(KafkaPages(env.ID)))

\* The faults the upstream may answer a listing with: none, or any one of
\* its requests when the listing is among the faulty ones.
FaultsOf(listing, pages, up) ==
    IF listing \in up.faulty
    THEN Faults(NumPages(pages),
                IF listing = "environments" THEN up.causes ELSE up.subCauses)
    ELSE {NoFault}

\* The failures the upstream may answer one loop iteration with: a failing
\* request of each listing, and the clusters whose connector listing fails
\* (none is asked for when the cluster listing failed).
FaultChoices(env, up) ==
    {f \in [kafka : FaultsOf("kafka", KafkaPages(env.ID), up),
            sr : FaultsOf("schema_registry", SchemaRegistryPages(env.ID, up), up),
            ksql : FaultsOf("ksql", KsqlPages(env.ID), up),
            pool : FaultsOf("compute_pool", ComputePoolPages(env.ID), up),
            conn : [ClusterIDs(env) ->
                      IF "connector" \in up.faulty
                      THEN Faults(1, up.subCauses)
                      ELSE {NoFault}]] :
        f.kafka.at > 0 => \A c \in ClusterIDs(env) : f.conn[c] = NoFault}

Bit(b) == IF b THEN 1 ELSE 0

FaultCost(f) ==
    Bit(f.kafka.at > 0) + Bit(f.sr.at > 0) + Bit(f.ksql.at > 0)
    + Bit(f.pool.at > 0) + Cardinality({c \in DOMAIN f.conn : f.conn[c].at > 0})

\* The sub-fetches of one environment that the upstream failed.
Injected(env, up, f) ==
    (IF f.kafka.at > 0 THEN {<<env.ID, "kafka">>} ELSE {})
    \cup {<<env.ID, "connector", c>> : c \in {d \in DOMAIN f.conn : f.conn[d].at > 0}}
    \cup (IF f.sr.at > 0 \/ GetSchemaRegistries(env.ID, up, NoFault).err
          THEN {<<env.ID, "schema_registry">>} ELSE {})
    \cup (IF f.ksql.at > 0 THEN {<<env.ID, "ksql">>} ELSE {})
    \cup (IF f.pool.at > 0 THEN {<<env.ID, "compute_pool">>} ELSE {})

UnitIdle ==
    /\ noSweep = New
    /\ last = NoCall
    /\ hist = << >>

Init ==
    /\ items = New
    /\ now = 0
    /\ cacheDuration = MaxTTL
    /\ req = [r \in Reqs |-> IdleReq]
    /\ obs = [r \in Reqs |-> NoObs]
    /\ faultsLeft = MaxFaults
    /\ upstream = ServiceUpstream
    /\ UnitIdle
    /\ LockIdle
    /\ HttpIdle

\* Lines 33-63 and 77-96: the handler up to the call of GetAllResources, or
\* up to the answer on a bad query or a cache hit, for a request whose
\* query string is one of queries.  On a hit the handler formats the slice
\* that the cache holds.
DiscoveryHandlerOn(r, queries) ==
    /\ req[r].pc = "idle"
    /\ r > 1 => req[r - 1].pc # "idle"
    /\ \E q \in queries :
        LET got == Get(items, cacheKey, now)
            query == ParseQuery(q)
            seen == [obs[r] EXCEPT
                        !.gets = 1,
                        !.seenLive = Live(items, now),
                        !.seenWrite = IF Live(items, now) THEN Writes(obs) ELSE 0,
                        !.overlapped = \E o \in DOMAIN req : req[o].pc \in Collecting]
        IN  IF query.bad
            THEN /\ req' = [req EXCEPT ![r] =
                              [@ EXCEPT !.pc = "done", !.q = q,
                                        !.answer = Reject(items, query).answer]]
                 /\ obs' = [obs EXCEPT ![r] = seen]
                 /\ items' = Reject(items, query).items
            ELSE IF resourcesNeedFetching(got.found)
            THEN /\ req' = [req EXCEPT ![r] = [@ EXCEPT !.pc = "GetEnvironments",
                                                       !.q = q]]
                 /\ obs' = [obs EXCEPT ![r] = [seen EXCEPT !.ran = 1]]
                 /\ items' = items
            ELSE LET resources == formatResponseLeaves(got.value,
                                                       query.targetsList,
                                                       query.prefix)
                 IN  /\ req' = [req EXCEPT ![r] =
                                  [@ EXCEPT !.pc = "done", !.q = q,
                                            !.resources = resources,
                                            !.answer = Answer(200,
                                                formatResponse(got.value,
                                                               query.targetsList,
                                                               query.prefix))]]
                     /\ obs' = [obs EXCEPT ![r] =
                                  [seen EXCEPT !.encoded =
                                      Encode(formatResponse(got.value,
                                                            query.targetsList,
                                                            query.prefix)).json]]
                     /\ items' = [items EXCEPT ![cacheKey].Value = resources]
    /\ UNCHANGED <<now, cacheDuration, faultsLeft, upstream, unitVars, sideVars>>

DiscoveryHandler(r) == DiscoveryHandlerOn(r, Queries)

\* GetAllResources lines 493-506: the environment listing.  On an error
\* GetAllResources returns it and the handler answers (lines 69-73).  Of a
\* failure the request that failed is recorded, not the cause: the step is
\* the same for every cause.
GetAllResourcesEnvironments(r) ==
    /\ req[r].pc = "GetEnvironments"
    /\ \E fault \in FaultsOf("environments", EnvironmentPages, upstream) :
        LET environments == GetEnvironments(fault)
            out == StoreFetched(items, << >>, TRUE, ParseQuery(req[r].q),
                                cacheDuration, now)
        IN  /\ Bit(fault.at > 0) <= faultsLeft
            /\ faultsLeft' = faultsLeft - Bit(fault.at > 0)
            /\ obs' = [obs EXCEPT ![r].envFault = Fault(fault.at, NoFault.cause)]
            /\ IF environments.err
               THEN /\ req' = [req EXCEPT ![r] = [@ EXCEPT !.pc = "done",
                                                          !.answer = out.answer]]
                    /\ items' = out.items
               ELSE /\ req' = [req EXCEPT ![r] =
                                 [@ EXCEPT !.pc = "ProcessEnv",
                                           !.environments = environments.data,
                                           !.i = 1]]
                    /\ items' = items
    /\ UNCHANGED <<now, cacheDuration, upstream, unitVars, sideVars>>

\* GetAllResources lines 509-650: one iteration of the loop over the
\* environments.
GetAllResourcesLoop(r) ==
    /\ req[r].pc = "ProcessEnv"
    /\ req[r].i <= Len(req[r].environments)
    /\ LET env == req[r].environments[req[r].i]
       IN  \E f \in FaultChoices(env, upstream) :
            LET part == ProcessEnv(env, upstream, f)
            IN  /\ FaultCost(f) <= faultsLeft
                /\ faultsLeft' = faultsLeft - FaultCost(f)
                /\ req' = [req EXCEPT ![r] =
                             [@ EXCEPT !.resources = @ \o part.resources,
                                       !.i = @ + 1]]
                /\ obs' = [obs EXCEPT ![r] =
                             [@ EXCEPT !.subFetches = @ + part.requests,
                                       !.injected = @ \cup Injected(env, upstream, f),
                                       !.warned = @ \cup part.warnings]]
    /\ UNCHANGED <<items, now, cacheDuration, upstream, unitVars, sideVars>>

\* GetAllResources lines 652-653 and the handler's lines 75-95: the catalog
\* is returned, cached and formatted.
GetAllResourcesReturn(r) ==
    /\ req[r].pc = "ProcessEnv"
    /\ req[r].i > Len(req[r].environments)
    /\ LET out == StoreFetched(items, req[r].resources, FALSE,
                               ParseQuery(req[r].q), cacheDuration, now)
       IN  /\ items' = out.items
           /\ req' = [req EXCEPT ![r] = [@ EXCEPT !.pc = "done",
                                                 !.answer = out.answer]]
           /\ obs' = [obs EXCEPT ![r] = [@ EXCEPT !.returned = TRUE,
                                                 !.write = Writes(obs) + 1,
                                                 !.encoded =
                                                     Encode(out.answer.body).json]]
    /\ UNCHANGED <<now, cacheDuration, faultsLeft, upstream, unitVars, sideVars>>

\* startCleanupTimer: the ticker fires and cleanup runs; a sweep that finds
\* nothing expired changes nothing.
Sweep ==
    /\ cleanup(items, now) # items
    /\ items' = cleanup(items, now)
    /\ UNCHANGED <<now, svcVars, unitVars, sideVars>>

\* Time passes.
Tick ==
    /\ now < MaxTime
    /\ now' = now + 1
    /\ UNCHANGED <<items, svcVars, unitVars, sideVars>>

Next ==
    \/ \E r \in Reqs : DiscoveryHandler(r)
    \/ \E r \in Reqs : GetAllResourcesEnvironments(r)
    \/ \E r \in Reqs : GetAllResourcesLoop(r)
    \/ \E r \in Reqs : GetAllResourcesReturn(r)
    \/ Sweep
    \/ Tick

Spec == Init /\ [][Next]_vars


(***************************************************************************)
(* SpecCollect: one request against an upstream of any shape that may fail *)
(* any request of any listing.                                             *)
(***************************************************************************)
RECURSIVE mostFaults(_)
\* The number of requests that can fail in the loop over the environments.
mostFaults(environments) ==
    IF environments = << >>
    THEN 0
    ELSE 4 + Cardinality(ClusterIDs(Head(environments)))
         + mostFaults(Tail(environments))

InitCollect ==
    /\ items = New
    /\ now = 0
    /\ cacheDuration = MaxTTL
    /\ req = [r \in {1} |-> IdleReq]
    /\ obs = [r \in {1} |-> NoObs]
    /\ faultsLeft = 1 + mostFaults(GetEnvironments(NoFault).data)
    /\ upstream \in CollectUpstreams
    /\ UnitIdle
    /\ LockIdle
    /\ HttpIdle

NextCollect ==
    \/ DiscoveryHandler(1)
    \/ GetAllResourcesEnvironments(1)
    \/ GetAllResourcesLoop(1)
    \/ GetAllResourcesReturn(1)

SpecCollect == InitCollect /\ [][NextCollect]_vars

(***************************************************************************)
(* SpecQuery: two requests against an upstream that never fails.  The      *)
(* first one asks for the catalog; the second one arrives, before, while   *)
(* or after the entry of the first is live, with any targets and any       *)
(* prefix of at most MaxPrefixLen characters.                              *)
(***************************************************************************)
PrefixChars == {"c", "Z", "9", "_", "-"}

Prefixes == UNION {[1..n -> PrefixChars] : n \in 0..MaxPrefixLen}

TC == <<",">>

PB == <<"c">>

TargetParams == {<< >>, TA, TB, TC}

AnyQueries == {Query(targets, prefix) : targets \in TargetParams,
                                       prefix \in Prefixes}

InitQuery ==
    /\ items = New
    /\ now = 0
    /\ cacheDuration = MaxTTL
    /\ req = [r \in {1, 2} |-> IdleReq]
    /\ obs = [r \in {1, 2} |-> NoObs]
    /\ faultsLeft = 0
    /\ upstream = ServiceUpstream
    /\ UnitIdle
    /\ LockIdle
    /\ HttpIdle

FirstRequest == DiscoveryHandlerOn(1, {Query(TA, PB)})

AnyRequest == DiscoveryHandlerOn(2, AnyQueries)

NextQuery ==
    \/ FirstRequest
    \/ AnyRequest
    \/ \E r \in {1, 2} : GetAllResourcesEnvironments(r)
    \/ \E r \in {1, 2} : GetAllResourcesLoop(r)
    \/ \E r \in {1, 2} : GetAllResourcesReturn(r)
    \/ Sweep
    \/ Tick

SpecQuery == InitQuery /\ [][NextQuery]_vars

(***************************************************************************)
(* SpecFormat: formatResponse called on catalogs of at most MaxResources   *)
(* resources, which are resources the collector produces and resources of  *)
(* other shapes.                                                           *)
(***************************************************************************)
\* The upstream answers every request of the loop iteration.
NoFaults(env) ==
    [kafka |-> NoFault, sr |-> NoFault, ksql |-> NoFault, pool |-> NoFault,
     conn |-> [c \in ClusterIDs(env) |-> NoFault]]

RECURSIVE loopOver(_, _)
\* for _, env := range environments, against an upstream that answers.
loopOver(environments, up) ==
    IF environments = << >>
    THEN << >>
    ELSE ProcessEnv(Head(environments), up, NoFaults(Head(environments))).resources
         \o loopOver(Tail(environments), up)

\* The catalog GetAllResources returns when the upstream answers every
\* request.
GetAllResources(up) == loopOver(GetEnvironments(NoFault).data, up)

\* The resources of the catalogs, for every shape of the region.
CollectedResources ==
    UNION {Range(GetAllResources([ServiceUpstream EXCEPT !.srRegion = shape])) :
             shape \in RegionShapes}

\* A resource of a kind the formatter does not know, one without labels, and
\* one with an empty id and an empty label value.
OtherResources ==
    {Resource("lfcp-1", "flink", [name |-> "statement", region |-> "us-east-1"]),
     Resource("lkc-9", "kafka", << >>),
     Resource("", "", [name |-> ""])}

SampleResources == CollectedResources \cup OtherResources

ResourceLists == UNION {[1..n -> SampleResources] : n \in 0..MaxResources}

TargetLists == {<<"m:443">>, <<"a", "b">>, <<"", "">>}

LabelPrefixes == {"", "c_", "_"}

InitFormat ==
    /\ items = New
    /\ now = 0
    /\ UnitIdle
    /\ SvcIdle
    /\ LockIdle
    /\ HttpIdle

\* response := formatResponse(resources, targetsList, prefix), once.
CallFormatResponse ==
    /\ last = NoCall
    /\ \E resources \in ResourceLists, targets \in TargetLists,
          prefix \in LabelPrefixes :
          last' = [op |-> "formatResponse", resources |-> resources,
                   targets |-> targets, prefix |-> prefix,
                   response |-> formatResponse(resources, targets, prefix)]
    /\ UNCHANGED <<items, now, noSweep, hist, svcVars, sideVars>>

NextFormat == CallFormatResponse

SpecFormat == InitFormat /\ [][NextFormat]_vars

(***************************************************************************)
(* SpecLock: the cache's operations step by step, called from several      *)
(* goroutines: the call of Lock or RLock, its return with the lock held,   *)
(* the body, and the deferred Unlock or RUnlock.  Goroutine 0 is            *)
(* startCleanupTimer, which calls cleanup; the others call Set, Get and    *)
(* Delete.                                                                 *)
(***************************************************************************)
Goroutines == 0..NumCallers

OpsOf(g) == IF g = 0 THEN {"cleanup"} ELSE {"Set", "Get", "Delete"}

\* Every operation taking the lock in shared mode.
LockModeAllShared(op) == "shared"

\* c.mu.RLock() in Get, c.mu.Lock() in Set, Delete and cleanup.
LockMode(op) == IF op = "Get" THEN "shared" ELSE "exclusive"

IdleGoroutine == [pc |-> "idle", op |-> "none", found |-> FALSE, returned |-> FALSE]

\* sync.RWMutex: RLock returns when no goroutine holds the lock in exclusive
\* mode and none waits in Lock; Lock returns when no goroutine holds the
\* lock in either mode.
CanRLock(m) == ~m.locked /\ m.waiting = 0

CanLock(m) == ~m.locked /\ m.readerCount = 0

InitLock ==
    /\ items = New
    /\ now = 0
    /\ mu = IdleMu
    /\ goroutines = [g \in Goroutines |-> IdleGoroutine]
    /\ UnitIdle
    /\ SvcIdle
    /\ HttpIdle

\* A goroutine calls an operation of the cache, whose first statement is
\* c.mu.Lock() or c.mu.RLock().
CallOp(g) ==
    /\ goroutines[g].pc = "idle"
    /\ \E op \in OpsOf(g) :
          /\ goroutines' = [goroutines EXCEPT ![g] =
                               [pc |-> "acquire", op |-> op, found |-> FALSE,
                                returned |-> FALSE]]
          /\ mu' = IF LockMode(op) = "exclusive"
                   THEN [mu EXCEPT !.waiting = @ + 1]
                   ELSE mu
    /\ UNCHANGED <<items, now, unitVars, svcVars, httpReq>>

\* Lock or RLock returns.
Acquire(g) ==
    /\ goroutines[g].pc = "acquire"
    /\ IF LockMode(goroutines[g].op) = "exclusive"
       THEN /\ CanLock(mu)
            /\ mu' = [mu EXCEPT !.locked = TRUE, !.waiting = @ - 1]
       ELSE /\ CanRLock(mu)
            /\ mu' = [mu EXCEPT !.readerCount = @ + 1]
    /\ goroutines' = [goroutines EXCEPT ![g].pc = "inside"]
    /\ UNCHANGED <<items, now, unitVars, svcVars, httpReq>>

\* The statements between the lock and the return.
Body(g) ==
    /\ goroutines[g].pc = "inside"
    /\ LET op == goroutines[g].op
       IN  /\ items' = CASE op = "Set" ->
                                Set(items, cacheKey, "value1", MaxTTL, now)
                         [] op = "Delete" -> Delete(items, cacheKey)
                         [] op = "cleanup" -> cleanup(items, now)
                         [] OTHER -> items
           /\ goroutines' = [goroutines EXCEPT ![g] =
                                [@ EXCEPT !.pc = "return",
                                          !.found = /\ op = "Get"
                                                    /\ Get(items, cacheKey, now).found]]
    /\ UNCHANGED <<now, mu, unitVars, svcVars, httpReq>>

\* The return runs the deferred Unlock or RUnlock.
Return(g) ==
    /\ goroutines[g].pc = "return"
    /\ mu' = IF LockMode(goroutines[g].op) = "exclusive"
             THEN [mu EXCEPT !.locked = FALSE]
             ELSE [mu EXCEPT !.readerCount = @ - 1]
    /\ goroutines' = [goroutines EXCEPT ![g] = [@ EXCEPT !.pc = "idle",
                                                         !.returned = TRUE]]
    /\ UNCHANGED <<items, now, unitVars, svcVars, httpReq>>

TickLock ==
    /\ now < MaxTime
    /\ now' = now + 1
    /\ UNCHANGED <<items, mu, goroutines, unitVars, svcVars, httpReq>>

NextLock ==
    \/ \E g \in Goroutines : CallOp(g)
    \/ \E g \in Goroutines : Acquire(g)
    \/ \E g \in Goroutines : Body(g)
    \/ \E g \in Goroutines : Return(g)
    \/ TickLock

SpecLock == InitLock /\ [][NextLock]_vars

(***************************************************************************)
(* SpecServe: the server of cmd/main.go.  The mux hands /health to         *)
(* HealthHandler and /discovery to DiscoveryHandler behind AuthMiddleware. *)
(* Request 1 is an authorized /discovery request; request 2 has any path   *)
(* and any Authorization header and is served before, while or after the   *)
(* entry of request 1 is live.                                             *)
(***************************************************************************)
\* cfg.ConfluentAPIKey, which main requires not to be empty.
ApiKey == <<"k", "1">>

Bearer == <<"B", "e", "a", "r", "e", "r", " ">>

\* strings.HasPrefix(s, prefix)
HasPrefix(s, prefix) ==
    /\ Len(s) >= Len(prefix)
    /\ SubSeq(s, 1, Len(prefix)) = prefix

\* strings.TrimPrefix(s, prefix)
TrimPrefix(s, prefix) ==
    IF HasPrefix(s, prefix) THEN SubSeq(s, Len(prefix) + 1, Len(s)) ELSE s

\* The values of the Authorization header: a scheme followed by a token;
\* the empty one is what r.Header.Get returns for a missing header.
Schemes ==
    {<< >>, Bearer, <<"b", "e", "a", "r", "e", "r", " ">>,
     <<"B", "e", "a", "r", "e", "r">>, <<"B", "a", "s", "i", "c", " ">>}

Tokens == {<< >>, ApiKey, <<"k">>, <<"k", "2">>, <<"k", "1", "1">>,
           <<" ", "k", "1">>}

Authorizations == {scheme \o token : scheme \in Schemes, token \in Tokens}

Paths == {"/health", "/discovery", "/metrics"}

HttpRequest(path, authorization) ==
    [path |-> path, authorization |-> authorization]

\* A middleware that lets every request with a bearer token through.
AuthMiddlewareAnyToken(apiKey, path, authHeader) ==
    IF path = "/health"
    THEN [next |-> TRUE]
    ELSE IF authHeader = << >>
    THEN [next |-> FALSE,
          answer |-> Answer(401, "Unauthorized: Missing Authorization header")]
    ELSE IF ~HasPrefix(authHeader, Bearer)
    THEN [next |-> FALSE,
          answer |-> Answer(401, "Unauthorized: Invalid Authorization format")]
    ELSE IF TrimPrefix(authHeader, Bearer) = << >>
    THEN [next |-> FALSE, answer |-> Answer(401, "Unauthorized: Empty token")]
    ELSE [next |-> TRUE]

\* AuthMiddleware(apiKey)(next): whether next.ServeHTTP is called, and the
\* answer when it is not.
AuthMiddleware(apiKey, path, authHeader) ==
    IF path = "/health"
    THEN [next |-> TRUE]
    ELSE IF authHeader = << >>
    THEN [next |-> FALSE,
          answer |-> Answer(401, "Unauthorized: Missing Authorization header")]
    ELSE IF ~HasPrefix(authHeader, Bearer)
    THEN [next |-> FALSE,
          answer |-> Answer(401, "Unauthorized: Invalid Authorization format")]
    ELSE IF TrimPrefix(authHeader, Bearer) = << >>
    THEN [next |-> FALSE, answer |-> Answer(401, "Unauthorized: Empty token")]
    ELSE IF TrimPrefix(authHeader, Bearer) # apiKey
    THEN [next |-> FALSE, answer |-> Answer(401, "Unauthorized: Invalid token")]
    ELSE [next |-> TRUE]

\* A health handler that answers only requests with an Authorization
\* header.
HealthHandlerAuthorized(request) ==
    IF request.authorization = << >>
    THEN Answer(401, "Unauthorized: Missing Authorization header")
    ELSE Answer(200, "OK")

\* w.WriteHeader(http.StatusOK); w.Write([]byte("OK"))
HealthHandler(request) == Answer(200, "OK")

\* mux.Handle: the handler registered for the path, none for another path.
Mux(path) ==
    CASE path = "/health" -> "HealthHandler"
      [] path = "/discovery" -> "DiscoveryHandler"
      [] OTHER -> "NotFound"

InitServe ==
    /\ items = New
    /\ now = 0
    /\ cacheDuration = MaxTTL
    /\ req = [r \in {1, 2} |-> IdleReq]
    /\ obs = [r \in {1, 2} |-> NoObs]
    /\ faultsLeft = 0
    /\ upstream = ServiceUpstream
    /\ httpReq \in {(1 :> HttpRequest("/discovery", Bearer \o ApiKey))
                      @@ (2 :> HttpRequest(path, authorization)) :
                        path \in Paths, authorization \in Authorizations}
    /\ UnitIdle
    /\ LockIdle

\* A handler writes its answer without touching the cache or the upstream.
Respond(r, answer) ==
    /\ req' = [req EXCEPT ![r] = [@ EXCEPT !.pc = "done", !.answer = answer]]
    /\ UNCHANGED <<items, now, cacheDuration, obs, faultsLeft, upstream,
                   unitVars, sideVars>>

\* mux.ServeHTTP for request r.
ServeHTTP(r) ==
    /\ req[r].pc = "idle"
    /\ LET request == httpReq[r]
           auth == AuthMiddleware(ApiKey, request.path, request.authorization)
       IN  CASE Mux(request.path) = "HealthHandler" ->
                    Respond(r, HealthHandler(request))
             [] Mux(request.path) = "DiscoveryHandler" ->
                    IF auth.next
                    THEN DiscoveryHandlerOn(r, IF r = 1 THEN {Query(TA, PB)}
                                                        ELSE Queries)
                    ELSE Respond(r, auth.answer)
             [] OTHER -> Respond(r, Answer(404, "404 page not found"))

NextServe ==
    \/ \E r \in {1, 2} : ServeHTTP(r)
    \/ \E r \in {1, 2} : GetAllResourcesEnvironments(r)
    \/ \E r \in {1, 2} : GetAllResourcesLoop(r)
    \/ \E r \in {1, 2} : GetAllResourcesReturn(r)
    \/ Sweep
    \/ Tick

SpecServe == InitServe /\ [][NextServe]_vars

(***************************************************************************)
(* SpecConfig: config.Load called once, in an environment that sets        *)
(* CACHE_DURATION to any string of at most MaxEnvLen characters, to one    *)
(* of some longer strings, or not at all.                                  *)
(***************************************************************************)
\* os.Getenv: the value of a variable, "" when it is not set.
Getenv(environ, name) ==
    IF name \in DOMAIN environ THEN environ[name] ELSE << >>

DigitValue ==
    ("0" :> 0) @@ ("1" :> 1) @@ ("2" :> 2) @@ ("3" :> 3) @@ ("4" :> 4)
    @@ ("5" :> 5) @@ ("6" :> 6) @@ ("7" :> 7) @@ ("8" :> 8) @@ ("9" :> 9)

RECURSIVE Significant(_)
\* The digits without the zeros in front of them.
Significant(digits) ==
    IF digits # << >> /\ Head(digits) = "0"
    THEN Significant(Tail(digits))
    ELSE digits

RECURSIVE Decimal(_, _)
\* The number that the digits stand for, read behind the number acc.
Decimal(digits, acc) ==
    IF digits = << >>
    THEN acc
    ELSE Decimal(Tail(digits), 10 * acc + DigitValue[Head(digits)])

\* The most digits of a value of Go's 64-bit int.  The strings of the
\* model have at most 9 or more than 19 digits behind their zeros.
IntDigits == 19

\* strconv.Atoi: an optional sign and one or more decimal digits; an error
\* on every other string and on a number outside the int range.
Atoi(s) ==
    LET signed == s # << >> /\ Head(s) \in {"+", "-"}
        digits == IF signed THEN Tail(s) ELSE s
    IN  IF digits = << >> \/ \E i \in 1..Len(digits) : digits[i] \notin Digit
        THEN [err |-> TRUE, n |-> 0]
        ELSE IF Len(Significant(digits)) > IntDigits
        THEN [err |-> TRUE, n |-> 0]
        ELSE [err |-> FALSE,
              n |-> IF signed /\ Head(s) = "-"
                    THEN 0 - Decimal(Significant(digits), 0)
                    ELSE Decimal(Significant(digits), 0)]

\* The largest n for which n * time.Minute is within int64:
\* 153722867 * 60000000000 <= 2^63 - 1 < 153722868 * 60000000000.
MaxMinutes == 153722867

\* time.Duration(n) * time.Minute, an int64 multiplication: n minutes when
\* the product is within int64, and otherwise the product wrapped around,
\* which is not n minutes (wrapped).
Minutes(n) ==
    [minutes |-> n, wrapped |-> n > MaxMinutes \/ n < 0 - MaxMinutes]

\* func Load() (*Config, error)
Load(environ) ==
    LET cacheDurationStr == Getenv(environ, "CACHE_DURATION")
    IN  [err |-> FALSE,
         cfg |-> [ConfluentAPIKey |-> Getenv(environ, "CONFLUENT_API_KEY"),
                  ConfluentAPISecret |-> Getenv(environ, "CONFLUENT_API_SECRET"),
                  CacheDuration |->
                      IF cacheDurationStr # << >>
                      THEN IF Atoi(cacheDurationStr).err
                           THEN Minutes(30)
                           ELSE Minutes(Atoi(cacheDurationStr).n)
                      ELSE Minutes(30)]]

EnvChars == {"1", "5", "0", "-", "+", "x", " "}

RECURSIVE Repeat(_, _)
Repeat(c, n) == IF n = 0 THEN << >> ELSE <<c>> \o Repeat(c, n - 1)

\* The values of CACHE_DURATION: every string of at most MaxEnvLen
\* characters, the values of config_test.go, the numbers around the longest
\* duration, and a number outside int.
DurationStrings ==
    UNION {[1..n -> EnvChars] : n \in 0..MaxEnvLen}
    \cup {<<"i", "n", "v", "a", "l", "i", "d">>,
          <<"1", "5", "m">>,
          <<"1", ".", "5">>,
          <<"0", "0", "0", "3", "0">>,
          <<"1", "5", "3", "7", "2", "2", "8", "6", "7">>,
          <<"1", "5", "3", "7", "2", "2", "8", "6", "8">>,
          <<"-", "1", "5", "3", "7", "2", "2", "8", "6", "7">>,
          <<"-", "1", "5", "3", "7", "2", "2", "8", "6", "8">>,
          Repeat("9", IntDigits + 1)}

\* The process environments: each of the three variables set or not.
Environs ==
    {key @@ secret @@ duration :
        key \in {<< >>, "CONFLUENT_API_KEY" :> <<"k", "1">>},
        secret \in {<< >>, "CONFLUENT_API_SECRET" :> <<"s">>},
        duration \in {<< >>} \cup {"CACHE_DURATION" :> d : d \in DurationStrings}}

InitConfig ==
    /\ items = New
    /\ now = 0
    /\ UnitIdle
    /\ SvcIdle
    /\ LockIdle
    /\ HttpIdle

\* cfg, err := config.Load(), once.
CallLoad ==
    /\ last = NoCall
    /\ \E environ \in Environs :
          last' = [op |-> "Load", environ |-> environ, out |-> Load(environ)]
    /\ UNCHANGED <<items, now, noSweep, hist, svcVars, sideVars>>

NextConfig == CallLoad

SpecConfig == InitConfig /\ [][NextConfig]_vars

(***************************************************************************)
(* Properties of the service.                                              *)
(***************************************************************************)
Served == DOMAIN req

\* The request has arrived with a query that passes the parameter checks.
Valid(r) == req[r].pc # "idle" /\ ~ParseQuery(req[r].q).bad

\* No request arrived while another one was being served.
Sequential == \A r \in Served : ~obs[r].overlapped

\* C2: in a sequential run from an empty cache the first valid request
\* calls GetAllResources once; a valid request that arrives while the
\* catalog's entry is live calls it zero times, whatever its query, and
\* answers with the same groups as the request that wrote that entry when
\* their targets and prefix are the same.
C2_OneCollectionPerEntry ==
    Sequential =>
        \A r \in Served :
            Valid(r) =>
                /\ (\A o \in Served : o < r => ~Valid(o)) => obs[r].ran = 1
                /\ obs[r].seenLive => obs[r].ran = 0
                /\ \A o \in Served :
                      ( /\ req[r].pc = "done"
                        /\ obs[r].seenLive
                        /\ obs[o].write > 0
                        /\ obs[o].write = obs[r].seenWrite
                        /\ req[o].q = req[r].q )
                      => req[r].answer = req[o].answer

\* The first request collected and cached, time passed, and the second
\* request, with the same query, was answered from the cache.
C2_Witness ==
    /\ Sequential
    /\ now > 0
    /\ \E o, r \in Served :
          /\ o < r
          /\ obs[o].write = 1
          /\ req[r].pc = "done"
          /\ obs[r].seenWrite = 1
          /\ obs[r].ran = 0
          /\ req[o].q = req[r].q
          /\ req[r].answer.status = 200
          /\ req[r].answer = req[o].answer

\* C3: a valid request that observes a miss while another request is
\* inside GetAllResources starts no collection of its own (it joins the
\* one in flight).
C3_SingleFlight ==
    \A r \in Served :
        (Valid(r) /\ obs[r].overlapped /\ ~obs[r].seenLive) => obs[r].ran = 0

\* C4: when the upstream fails a page of the environment listing, the
\* request ends with 500, without a catalog, without any per-environment
\* sub-fetch and without a write, and the step that meets the failure
\* leaves the cache as it was.
C4_EnvironmentFailureIsFatal ==
    [][\A r \in Served :
          obs'[r].envFault.at > 0 =>
              /\ req'[r].pc = "done"
              /\ req'[r].answer.status = 500
              /\ req'[r].resources = << >>
              /\ ~obs'[r].returned
              /\ obs'[r].subFetches = 0
              /\ obs'[r].write = 0
              /\ obs[r].envFault.at = 0 => items' = items]_vars

\* A request failed on the second page of the environment listing while
\* the cache held the entry of another request.
C4_Witness ==
    \E r \in Served :
        /\ obs[r].envFault.at = 2
        /\ req[r].answer.status = 500
        /\ cacheKey \in DOMAIN items

\* The environments of the upstream, and the ids of the catalog's resources
\* of one environment and one kind, in catalog order.
Environments == Range(GetEnvironments(NoFault).data)

IDsIn(resources, env, resourceType) ==
    LET Mine(x) == /\ x.ResourceType = resourceType
                   /\ x.Labels["environment_name"] = env.Name
        mine == SelectSeq(resources, Mine)
    IN  [i \in 1..Len(mine) |-> mine[i].ID]

ConnectorsIn(resources, env, clusterID) ==
    LET Mine(x) == /\ x.ResourceType = "connector"
                   /\ x.Labels["environment_name"] = env.Name
                   /\ x.Labels["cluster_id"] = clusterID
        mine == SelectSeq(resources, Mine)
    IN  [i \in 1..Len(mine) |-> mine[i].ID]

\* What a listing contributes: everything it holds, nothing when it failed.
Kept(failed, ids) == IF failed THEN << >> ELSE ids

\* C5: when the environment listing succeeds the collection succeeds, and
\* for every environment and kind the catalog holds all ids of the listing
\* when the upstream answered it and none when the upstream failed it
\* (connectors: per cluster, none when the cluster listing failed).
C5_PartialFailureIsolation ==
    \A r \in Served :
        (req[r].pc = "done" /\ obs[r].ran = 1 /\ obs[r].envFault.at = 0) =>
            LET cat == req[r].resources
                bad == obs[r].injected
            IN  /\ obs[r].returned
                /\ req[r].answer.status = 200
                /\ \A env \in Environments :
                    /\ IDsIn(cat, env, "kafka")
                         = Kept(<<env.ID, "kafka">> \in bad,
                                UpstreamIDs(KafkaPages(env.ID)))
                    /\ IDsIn(cat, env, "schema_registry")
                         = Kept(<<env.ID, "schema_registry">> \in bad,
                                UpstreamIDs(SchemaRegistryPages(env.ID, upstream)))
                    /\ IDsIn(cat, env, "ksql")
                         = Kept(<<env.ID, "ksql">> \in bad,
                                UpstreamIDs(KsqlPages(env.ID)))
                    /\ IDsIn(cat, env, "compute_pool")
                         = Kept(<<env.ID, "compute_pool">> \in bad,
                                UpstreamIDs(ComputePoolPages(env.ID)))
                    /\ \A c \in ClusterIDs(env) :
                          ConnectorsIn(cat, env, c)
                            = Kept(\/ <<env.ID, "kafka">> \in bad
                                   \/ <<env.ID, "connector", c>> \in bad,
                                   ConnectorNames(env.ID, c))
                /\ \A i \in 1..Len(cat) :
                      /\ cat[i].ResourceType \in Listings \ {"environments"}
                      /\ \E env \in Environments :
                            cat[i].Labels["environment_name"] = env.Name

\* The Schema Registry listing of the first environment failed and nothing
\* else did: the collection succeeded.
C5_Witness ==
    \E r \in Served :
        /\ req[r].pc = "done"
        /\ obs[r].returned
        /\ obs[r].injected = {<<"env-1", "schema_registry">>}
        /\ req[r].answer.status = 200

\* C6: the cache holds nothing but the catalog's entry, whose value is the
\* whole catalog returned by one GetAllResources run; the cache changes only
\* by the sweep removing the expired entry or by a returning run writing
\* its catalog with the expiry now + ttl; a request that ends with 500
\* leaves the cache as it was.
C6_EntryIsOneWholeCatalog ==
    [][/\ DOMAIN items' \subseteq {cacheKey}
       /\ cacheKey \in DOMAIN items' =>
             \E r \in Served : /\ obs'[r].returned
                               /\ items'[cacheKey].Value = req'[r].resources
       /\ items' # items =>
             \/ /\ items' = New
                /\ now > items[cacheKey].Expiration
             \/ \E r \in Served :
                   /\ ~obs[r].returned
                   /\ obs'[r].returned
                   /\ items' = (cacheKey :> Item(req[r].resources,
                                                now + cacheDuration))
       /\ \A r \in Served :
             (req[r].pc # "done" /\ req'[r].answer.status = 500)
                 => items' = items]_vars

\* Two requests missed together; one cached its catalog, the other failed
\* and the first one's entry is still live.
C6_Witness ==
    \E o, r \in Served :
        /\ obs[o].returned
        /\ obs[r].overlapped
        /\ obs[r].envFault.at > 0
        /\ req[r].answer.status = 500
        /\ Live(items, now)
        /\ items[cacheKey].Value = req[o].resources

\* s is the first valid request after r.
NextValid(r, s) ==
    /\ r < s
    /\ Valid(s)
    /\ \A k \in Served : (r < k /\ k < s) => ~Valid(k)

\* No request that arrived before s has written the cache.
ColdBefore(s) == \A k \in Served : k < s => obs[k].write = 0

\* C11: a request answered 500 made one GetAllResources call, got no
\* catalog and wrote nothing, and while no request has written, the cache
\* is empty; the next valid request after it, arriving alone at the cold
\* cache, misses and runs a collection of its own from the environment
\* listing, and the step in which a collection returns leaves its catalog
\* live in the cache.
C11_FailureNotCachedNextCollects ==
    /\ [](\A r \in Served :
            (req[r].pc = "done" /\ req[r].answer.status = 500) =>
                /\ obs[r].ran = 1
                /\ ~obs[r].returned
                /\ obs[r].write = 0
                /\ req[r].resources = << >>
                /\ (\A k \in Served : obs[k].write = 0) => items = New
                /\ \A s \in Served :
                      (NextValid(r, s) /\ ~obs[s].overlapped /\ ColdBefore(s)) =>
                          /\ ~obs[s].seenLive
                          /\ obs[s].ran = 1
                          /\ (req[s].pc = "done" /\ obs[s].envFault.at = 0) =>
                                /\ obs[s].returned
                                /\ obs[s].subFetches > 0
                                /\ obs[s].write > 0
                                /\ req[s].answer.status = 200)
    /\ [][\A s \in Served :
            (~obs[s].returned /\ obs'[s].returned) =>
                /\ Live(items', now')
                /\ items'[cacheKey].Value = req'[s].resources]_vars

\* The first request failed on the environment listing at the cold cache;
\* the second one collected, and its catalog is live in the cache.
C11_Witness ==
    \E r, s \in Served :
        /\ req[r].answer.status = 500
        /\ ~obs[r].seenLive
        /\ NextValid(r, s)
        /\ ~obs[s].overlapped
        /\ ColdBefore(s)
        /\ req[s].answer.status = 200
        /\ obs[s].write = 1
        /\ Live(items, now)
        /\ items[cacheKey].Value = req[s].resources
        /\ Len(req[s].resources) > 0

\* C12: a request whose targets parameter is missing or empty ends at once
\* with 400 and the message about the missing targets parameter, without a
\* collection and without a catalog, whether the catalog's entry was live
\* or not when it arrived and whatever its prefix, valid or not.
C12_MissingTargets ==
    \A r \in Served :
        (req[r].pc # "idle" /\ req[r].q.targets = << >>) =>
            /\ req[r].pc = "done"
            /\ req[r].answer = Answer(400, "Missing required 'targets' parameter")
            /\ obs[r].ran = 0
            /\ req[r].resources = << >>

\* A request without targets and with a prefix outside the charset was
\* answered 400 while the catalog's entry was live.
C12_Witness ==
    \E r \in Served :
        /\ req[r].q = Query(<< >>, <<"-">>)
        /\ obs[r].seenLive
        /\ req[r].answer.status = 400

\* The characters a prefix may be made of.
WordChars == Lower \cup Upper \cup Digit \cup {"_"}

\* The prefix parameter holds a character outside letters, digits and "_".
OutsideCharset(prefix) == \E i \in 1..Len(prefix) : prefix[i] \notin WordChars

\* C13: a request with targets whose prefix holds a character outside
\* letters, digits and "_" ends at once with 400 and the message about the
\* prefix, without a collection, a catalog or a group; with the empty
\* prefix or a prefix of letters, digits and "_" only, it is never answered
\* 400: it collects or is answered 200.
C13_PrefixCharset ==
    \A r \in Served :
        (req[r].pc # "idle" /\ req[r].q.targets # << >>) =>
            IF OutsideCharset(req[r].q.prefix)
            THEN /\ req[r].pc = "done"
                 /\ req[r].answer = Answer(400, "Invalid 'prefix' parameter. Must contain only alphanumeric characters and underscores")
                 /\ obs[r].ran = 0
                 /\ req[r].resources = << >>
            ELSE /\ req[r].answer.status # 400
                 /\ req[r].pc \in Collecting \cup {"done"}
                 /\ req[r].pc = "done" =>
                       /\ req[r].answer.status = 200
                       /\ Len(req[r].answer.body) = Len(req[r].resources)

\* The request with prefix "c" was answered 200 and cached its catalog;
\* the request with prefix "c-" found the entry live and was answered 400.
C13_Witness ==
    \E o, r \in Served :
        /\ req[o].q.prefix = PB
        /\ req[o].answer.status = 200
        /\ req[r].q = Query(TA, <<"c", "-">>)
        /\ obs[r].seenLive
        /\ req[r].answer.status = 400

\* The request was answered 200.
Answered(r) == req[r].pc = "done" /\ req[r].answer.status = 200

\* The groups of the catalog and the targets of r under the label-key
\* prefix P.
GroupsUnder(r, P) ==
    formatResponse(req[r].resources, Split(req[r].q.targets), P)

\* The answer the handler gives to query q from the catalog of r.
ResponseTo(q, r) ==
    Answer(200, formatResponse(req[r].resources, ParseQuery(q).targetsList,
                               ParseQuery(q).prefix))

\* C14: a request answered 200 whose prefix p is non-empty and does not
\* end in "_" gets the groups under p followed by "_", which is the
\* answer the handler gives to the prefix p followed by "_" from the same
\* catalog and targets; a prefix that ends in "_" is used as it is, and the
\* empty prefix as the empty string.  Two requests answered from the same
\* catalog with the same targets, one with p and one with p followed by
\* "_", get the same answer.
C14_TrailingUnderscore ==
    /\ \A r \in Served :
          Answered(r) =>
              LET p == req[r].q.prefix
              IN  IF p # << >> /\ p[Len(p)] # "_"
                  THEN /\ req[r].answer.body = GroupsUnder(r, Str(p) \o "_")
                       /\ req[r].answer
                            = ResponseTo(Query(req[r].q.targets, Append(p, "_")), r)
                  ELSE req[r].answer.body = GroupsUnder(r, Str(p))
    /\ \A o, r \in Served :
          ( /\ Answered(o)
            /\ Answered(r)
            /\ req[o].resources = req[r].resources
            /\ req[o].q.targets = req[r].q.targets
            /\ req[o].q.prefix # << >>
            /\ ~HasSuffixUnderscore(req[o].q.prefix)
            /\ req[r].q.prefix = Append(req[o].q.prefix, "_") )
          => req[r].answer = req[o].answer

\* The request with prefix "c" cached its catalog and the request with
\* prefix "c_" was answered from it, with the same groups, whose label keys
\* start with "c_" and not with "c__".
C14_Witness ==
    \E o, r \in Served :
        /\ Answered(o)
        /\ Answered(r)
        /\ req[o].q = Query(TA, PB)
        /\ req[r].q = Query(TA, <<"c", "_">>)
        /\ obs[r].seenLive
        /\ req[r].answer = req[o].answer
        /\ Len(req[r].answer.body) > 0
        /\ "c_environment_name" \in DOMAIN req[r].answer.body[1].Labels
        /\ "c__environment_name" \notin DOMAIN req[r].answer.body[1].Labels

\* formatResponse has been called.
Formatted == last.op = "formatResponse"

\* C15: the labels of the i-th group are the labels of the i-th resource
\* with the prefix put before every key: the keys are exactly the prefixed
\* keys, as many as the resource has, every value is the resource's, and
\* under the empty prefix the labels are the resource's labels.
C15_LabelsPrefixed ==
    Formatted =>
        \A i \in 1..Len(last.resources) :
            LET from == last.resources[i].Labels
                to == last.response[i].Labels
            IN  /\ DOMAIN to = {last.prefix \o k : k \in DOMAIN from}
                /\ Cardinality(DOMAIN to) = Cardinality(DOMAIN from)
                /\ \A k \in DOMAIN from : to[last.prefix \o k] = from[k]
                /\ last.prefix = "" =>
                      /\ DOMAIN to = DOMAIN from
                      /\ \A k \in DOMAIN from : to[k] = from[k]

\* A Kafka resource of the collector was formatted under the prefix "c_".
C15_Witness ==
    /\ Formatted
    /\ last.prefix = "c_"
    /\ Len(last.resources) > 0
    /\ last.resources[1] \in CollectedResources
    /\ last.resources[1].ResourceType = "kafka"
    /\ last.response[1].Labels["c_cluster_name"]
         = last.resources[1].Labels["cluster_name"]
    /\ "cluster_name" \notin DOMAIN last.response[1].Labels

\* The parameter key of each kind.
ParamKeys ==
    ("kafka" :> "resource.kafka.id")
    @@ ("schema_registry" :> "resource.schema_registry.id")
    @@ ("ksql" :> "resource.ksql.id")
    @@ ("compute_pool" :> "resource.compute_pool.id")
    @@ ("connector" :> "resource.connector.id")

\* C16: the params of the i-th group are the one entry from the parameter
\* key of the i-th resource's kind to the sequence holding its id when the
\* kind is one of the five, and empty otherwise, the labels being emitted
\* all the same; every resource the collector produces is of one of the
\* five kinds, so its group has exactly one params entry.
C16_ParamsByKind ==
    Formatted =>
        \A i \in 1..Len(last.resources) :
            LET x == last.resources[i]
                g == last.response[i]
            IN  /\ IF x.ResourceType \in DOMAIN ParamKeys
                   THEN /\ DOMAIN g.Params = {ParamKeys[x.ResourceType]}
                        /\ g.Params[ParamKeys[x.ResourceType]] = <<x.ID>>
                   ELSE /\ DOMAIN g.Params = {}
                        /\ Cardinality(DOMAIN g.Labels)
                             = Cardinality(DOMAIN x.Labels)
                        /\ \A k \in DOMAIN x.Labels :
                               g.Labels[last.prefix \o k] = x.Labels[k]
                /\ x \in CollectedResources =>
                      /\ x.ResourceType \in DOMAIN ParamKeys
                      /\ Cardinality(DOMAIN g.Params) = 1

\* A catalog of a resource of kind "flink" and a connector of the collector
\* was formatted: the first group has labels and no params, the second one
\* the connector's id under resource.connector.id.
C16_Witness ==
    /\ Formatted
    /\ Len(last.resources) = 2
    /\ last.resources[1].ResourceType = "flink"
    /\ last.response[1].Params = << >>
    /\ DOMAIN last.response[1].Labels # {}
    /\ last.resources[2] \in CollectedResources
    /\ last.resources[2].ResourceType = "connector"
    /\ last.response[2].Params
         = ("resource.connector.id" :> <<last.resources[2].ID>>)

\* The i-th group is made of the i-th resource: its labels are the
\* resource's under the prefix and its params hold the resource's id.
BuiltFrom(g, x, prefix) ==
    /\ Cardinality(DOMAIN g.Labels) = Cardinality(DOMAIN x.Labels)
    /\ \A k \in DOMAIN x.Labels :
          /\ prefix \o k \in DOMAIN g.Labels
          /\ g.Labels[prefix \o k] = x.Labels[k]
    /\ x.ResourceType \in DOMAIN ParamKeys =>
          /\ ParamKeys[x.ResourceType] \in DOMAIN g.Params
          /\ g.Params[ParamKeys[x.ResourceType]] = <<x.ID>>

\* C17: the response has as many groups as the catalog has resources, and
\* the i-th group is built from the i-th resource, also when the catalog
\* holds the same resource twice.
C17_OneGroupPerResource ==
    Formatted =>
        /\ DOMAIN last.response = 1..Len(last.resources)
        /\ \A i \in 1..Len(last.resources) :
              BuiltFrom(last.response[i], last.resources[i], last.prefix)

\* A catalog that starts with a Schema Registry and a Kafka cluster was
\* formatted: the first two groups name them, in this order.
C17_Witness ==
    /\ Formatted
    /\ Len(last.resources) >= 2
    /\ Len(last.response) = Len(last.resources)
    /\ last.resources[1].ID # last.resources[2].ID
    /\ last.resources[1].ResourceType = "schema_registry"
    /\ last.resources[2].ResourceType = "kafka"
    /\ last.response[1].Params
         = ("resource.schema_registry.id" :> <<last.resources[1].ID>>)
    /\ last.response[2].Params
         = ("resource.kafka.id" :> <<last.resources[2].ID>>)

\* The target lists of the targets parameters: the pieces between the
\* commas, in order.
Pieces ==
    (TA :> <<"m:443">>) @@ (TB :> <<"a", "b">>) @@ (TC :> <<"", "">>)

RECURSIVE Joined(_)
\* The targets of a list, with commas between them.
Joined(targets) ==
    IF Len(targets) = 1
    THEN targets[1]
    ELSE targets[1] \o "," \o Joined(Tail(targets))

\* C18: in every 200 answer every group's targets are the pieces of the
\* request's targets parameter between its commas, in order, whatever the
\* resource of the group and whether the catalog came from the cache or
\* from a collection.
C18_TargetsEchoed ==
    \A r \in Served :
        Answered(r) =>
            /\ Len(req[r].answer.body) = Len(req[r].resources)
            /\ \A i \in 1..Len(req[r].answer.body) :
                  /\ req[r].answer.body[i].Targets = Pieces[req[r].q.targets]
                  /\ Joined(req[r].answer.body[i].Targets) = Str(req[r].q.targets)
                  /\ req[r].answer.body[i].Targets = req[r].answer.body[1].Targets

\* The request with targets "a,b" was answered from the catalog that the
\* request with targets "m:443" cached: every group of the one has the
\* targets a and b, every group of the other the target m:443.
C18_Witness ==
    \E o, r \in Served :
        /\ Answered(o)
        /\ Answered(r)
        /\ req[o].q.targets = TA
        /\ req[r].q.targets = TB
        /\ obs[r].seenLive
        /\ req[r].resources = req[o].resources
        /\ Len(req[r].answer.body) > 1
        /\ \A i \in 1..Len(req[r].answer.body) :
              /\ req[r].answer.body[i].Targets = <<"a", "b">>
              /\ req[o].answer.body[i].Targets = <<"m:443">>

RECURSIVE recordsOf(_, _)
recordsOf(pages, token) ==
    IF pages[token].Next = NoToken
    THEN pages[token].Data
    ELSE pages[token].Data \o recordsOf(pages, pages[token].Next)

\* The records a listing of the upstream holds, page after page.
UpstreamRecords(pages) == recordsOf(pages, NoToken)

\* The place of v in a sequence that holds it.
PosIn(seq, v) == CHOOSE i \in 1..Len(seq) : seq[i] = v

\* The place of a resource's environment in the environment listing.
EnvPos(x) ==
    LET names == [i \in 1..Len(UpstreamRecords(EnvironmentPages)) |->
                    UpstreamRecords(EnvironmentPages)[i].Name]
    IN  PosIn(names, x.Labels["environment_name"])

\* The environment of a resource.
EnvOf(x) == UpstreamRecords(EnvironmentPages)[EnvPos(x)]

\* The place of a resource's kind in the loop body; a connector belongs to
\* the Kafka clusters.
Stage(x) ==
    CASE x.ResourceType \in {"kafka", "connector"} -> 1
      [] x.ResourceType = "schema_registry" -> 2
      [] x.ResourceType = "ksql" -> 3
      [] x.ResourceType = "compute_pool" -> 4

\* The place of a resource in the upstream listing it comes from.
ListPos(x) ==
    CASE x.ResourceType = "kafka" ->
            PosIn(UpstreamIDs(KafkaPages(EnvOf(x).ID)), x.ID)
      [] x.ResourceType = "connector" ->
            PosIn(ConnectorNames(EnvOf(x).ID, x.Labels["cluster_id"]), x.ID)
      [] x.ResourceType = "schema_registry" ->
            PosIn(UpstreamIDs(SchemaRegistryPages(EnvOf(x).ID, upstream)), x.ID)
      [] x.ResourceType = "ksql" ->
            PosIn(UpstreamIDs(KsqlPages(EnvOf(x).ID)), x.ID)
      [] x.ResourceType = "compute_pool" ->
            PosIn(UpstreamIDs(ComputePoolPages(EnvOf(x).ID)), x.ID)

\* x is a connector of the Kafka cluster y.
ConnectorOf(x, y) ==
    /\ x.ResourceType = "connector"
    /\ y.ResourceType = "kafka"
    /\ EnvPos(x) = EnvPos(y)
    /\ x.Labels["cluster_id"] = y.ID

\* C19: at every moment of a collection the resources gathered so far are
\* in traversal order: by environment as the environment listing has them,
\* within an environment Kafka clusters and connectors, then Schema
\* Registry, then KSQL, then compute pools, resources of one listing in
\* the order of the listing, and every connector directly behind its
\* cluster or behind an earlier connector of its cluster.
C19_TraversalOrder ==
    \A r \in Served :
        LET cat == req[r].resources
        IN  /\ \A i, j \in 1..Len(cat) :
                  i < j =>
                      /\ EnvPos(cat[i]) <= EnvPos(cat[j])
                      /\ EnvPos(cat[i]) = EnvPos(cat[j]) =>
                            /\ Stage(cat[i]) <= Stage(cat[j])
                            /\ ( /\ cat[i].ResourceType = cat[j].ResourceType
                                 /\ cat[i].ResourceType # "connector" )
                               => ListPos(cat[i]) < ListPos(cat[j])
            /\ \A j \in 1..Len(cat) :
                  cat[j].ResourceType = "connector" =>
                      /\ j > 1
                      /\ \/ ConnectorOf(cat[j], cat[j - 1])
                         \/ /\ cat[j - 1].ResourceType = "connector"
                            /\ EnvPos(cat[j - 1]) = EnvPos(cat[j])
                            /\ cat[j - 1].Labels["cluster_id"]
                                 = cat[j].Labels["cluster_id"]
                            /\ ListPos(cat[j - 1]) < ListPos(cat[j])

\* A collection in which the upstream answered every request returned the
\* twelve resources of the two environments in traversal order.
C19_Witness ==
    \E r \in Served :
        /\ obs[r].returned
        /\ obs[r].injected = {}
        /\ [i \in 1..Len(req[r].resources) |-> req[r].resources[i].ID]
             = <<"lkc-1", "conn-a", "lsrc-1", "lksqlc-1", "lksqlc-2", "lfcp-1",
                 "lkc-2", "lkc-3", "conn-b", "conn-c", "lsrc-2", "lfcp-2">>

RECURSIVE tokensFrom(_, _)
tokensFrom(pages, token) ==
    IF pages[token].Next = NoToken
    THEN <<token>>
    ELSE <<token>> \o tokensFrom(pages, pages[token].Next)

\* The page tokens that lead through a listing of the upstream: none, then
\* the continuation token of each page that has one.
TokenChain(pages) == tokensFrom(pages, NoToken)

\* What a listing returns when the upstream fails its request number
\* fault.at, or none: all records of the pages in page order after one
\* request per page, or the error after fault.at requests.
PagedThrough(out, pages, fault) ==
    IF fault.at = 0
    THEN /\ ~out.err
         /\ out.data = UpstreamRecords(pages)
         /\ out.requests = Len(TokenChain(pages))
    ELSE /\ out.err
         /\ out.data = << >>
         /\ out.requests = fault.at

RECURSIVE requestsFor(_, _)
\* The requests of the loop over the environments when every request is
\* answered: one per page of the four listings and one per Kafka cluster.
requestsFor(environments, up) ==
    IF environments = << >>
    THEN 0
    ELSE LET e == Head(environments).ID
         IN  Len(TokenChain(KafkaPages(e)))
             + Len(UpstreamRecords(KafkaPages(e)))
             + Len(TokenChain(SchemaRegistryPages(e, up)))
             + Len(TokenChain(KsqlPages(e)))
             + Len(TokenChain(ComputePoolPages(e)))
             + requestsFor(Tail(environments), up)

\* C20: each of the five paginated listings, started without a page token,
\* follows the continuation tokens and returns, after one request per page,
\* the records of all pages in page order, or stops with an error at the
\* request the upstream fails; the collection works on the environments of
\* all pages and, when every request is answered, has issued one request
\* per page.
C20_Pagination ==
    \A r \in Served :
        /\ obs[r].ran > 0 =>
              /\ \A fault \in Faults(NumPages(EnvironmentPages), upstream.causes) :
                    PagedThrough(GetEnvironments(fault), EnvironmentPages, fault)
              /\ \A env \in Environments :
                    LET kafka == KafkaPages(env.ID)
                        ksql == KsqlPages(env.ID)
                        pools == ComputePoolPages(env.ID)
                        sr == SchemaRegistryPages(env.ID, upstream)
                    IN  /\ \A fault \in Faults(NumPages(kafka), upstream.subCauses) :
                              PagedThrough(GetKafkaClusters(env.ID, fault),
                                           kafka, fault)
                        /\ \A fault \in Faults(NumPages(ksql), upstream.subCauses) :
                              PagedThrough(GetKsqlDBs(env.ID, fault), ksql, fault)
                        /\ \A fault \in Faults(NumPages(pools), upstream.subCauses) :
                              PagedThrough(GetComputePools(env.ID, fault),
                                           pools, fault)
                        /\ \A fault \in Faults(NumPages(sr), upstream.subCauses) :
                              (\A i \in 1..Len(UpstreamRecords(sr)) :
                                  FitsRegion(UpstreamRecords(sr)[i].Region))
                              => PagedThrough(
                                    GetSchemaRegistries(env.ID, upstream, fault),
                                    sr, fault)
        /\ req[r].pc = "ProcessEnv" =>
              req[r].environments = UpstreamRecords(EnvironmentPages)
        /\ (obs[r].returned /\ obs[r].injected = {}) =>
              obs[r].subFetches = requestsFor(req[r].environments, upstream)

\* A collection went through both pages of the environment listing and
\* both pages of the second environment's Kafka listing and returned after
\* twelve answered requests of the loop.
C20_Witness ==
    \E r \in Served :
        /\ obs[r].returned
        /\ obs[r].injected = {}
        /\ Len(TokenChain(EnvironmentPages)) = 2
        /\ Len(req[r].environments) = 2
        /\ Len(TokenChain(KafkaPages("env-2"))) = 2
        /\ IDsIn(req[r].resources, req[r].environments[2], "kafka")
             = <<"lkc-2", "lkc-3">>
        /\ obs[r].subFetches = 12

(***************************************************************************)
(* Properties of the catalog, checked under SpecCollect.                   *)
(***************************************************************************)
\* The sub-fetches that fail without a failure of the upstream's: the
\* listings whose records do not fit the Go type.
Undecodable ==
    UNION {Injected(env, upstream, NoFaults(env)) : env \in Environments}

\* The connector listings of the Kafka clusters.
ConnectorListings ==
    {<<env.ID, "connector", c>> : env \in Environments,
                                  c \in UNION {ClusterIDs(e) : e \in Environments}}

\* x is a connector listed under a cluster whose connector listing is in bad.
LostConnector(x, bad) ==
    /\ x.ResourceType = "connector"
    /\ <<EnvOf(x).ID, "connector", x.Labels["cluster_id"]>> \in bad

\* The catalog without the connectors of the clusters whose connector
\* listing is in bad.
WithoutConnectorsOf(resources, bad) ==
    LET Stays(x) == ~LostConnector(x, bad)
    IN  SelectSeq(resources, Stays)

\* C21: in a returned collection whose only failed requests are connector
\* listings, the catalog is the catalog of the run without failures less the
\* connectors of the clusters whose listing failed: each such cluster's own
\* Kafka resource is there, directly followed by what follows its
\* connectors otherwise.  A warning is logged for exactly the failed
\* listings: a cluster whose connector list is empty contributes no
\* connector and no warning.
C21_ConnectorFailureIsolated ==
    \A r \in Served :
        ( /\ obs[r].returned
          /\ obs[r].injected \ Undecodable \subseteq ConnectorListings ) =>
            LET cat == req[r].resources
                bad == obs[r].injected \cap ConnectorListings
            IN  /\ cat = WithoutConnectorsOf(GetAllResources(upstream), bad)
                /\ obs[r].warned = obs[r].injected
                /\ req[r].answer.status = 200
                /\ \A env \in Environments :
                      \A c \in ClusterIDs(env) :
                          /\ \E i \in 1..Len(cat) :
                                /\ cat[i].ResourceType = "kafka"
                                /\ cat[i].ID = c
                                /\ cat[i].Labels["environment_name"] = env.Name
                          /\ <<env.ID, "connector", c>> \in bad =>
                                ConnectorsIn(cat, env, c) = << >>
                          /\ ( /\ <<env.ID, "connector", c>> \notin bad
                               /\ ConnectorNames(env.ID, c) = << >> ) =>
                                /\ ConnectorsIn(cat, env, c) = << >>
                                /\ <<env.ID, "connector", c>> \notin obs[r].warned

\* The connector listing of lkc-3 failed and no other request: the catalog
\* holds lkc-3 and not its connectors conn-b and conn-c, the connector of
\* lkc-1 and everything else; lkc-2, which has no connectors, is there
\* without a warning.
C21_Witness ==
    \E r \in Served :
        /\ obs[r].returned
        /\ obs[r].injected = {<<"env-2", "connector", "lkc-3">>}
        /\ obs[r].warned = {<<"env-2", "connector", "lkc-3">>}
        /\ [i \in 1..Len(req[r].resources) |-> req[r].resources[i].ID]
             = <<"lkc-1", "conn-a", "lsrc-1", "lksqlc-1", "lksqlc-2", "lfcp-1",
                 "lkc-2", "lkc-3", "lsrc-2", "lfcp-2">>

\* The record of the upstream that a resource is made of; for a connector,
\* the record of the Kafka cluster it was listed under.
SourceRecord(x) ==
    LET e == EnvOf(x).ID
        Among(records, id) ==
            records[CHOOSE i \in 1..Len(records) : records[i].ID = id]
    IN  CASE x.ResourceType = "kafka" ->
                Among(UpstreamRecords(KafkaPages(e)), x.ID)
          [] x.ResourceType = "connector" ->
                Among(UpstreamRecords(KafkaPages(e)), x.Labels["cluster_id"])
          [] x.ResourceType = "schema_registry" ->
                Among(UpstreamRecords(SchemaRegistryPages(e, upstream)), x.ID)
          [] x.ResourceType = "ksql" ->
                Among(UpstreamRecords(KsqlPages(e)), x.ID)
          [] x.ResourceType = "compute_pool" ->
                Among(UpstreamRecords(ComputePoolPages(e)), x.ID)

\* The kinds of the catalog's resources whose cloud_provider is provider.
KindsWith(resources, provider) ==
    {resources[i].ResourceType :
        i \in {j \in 1..Len(resources) :
                  resources[j].Labels["cloud_provider"] = provider}}

\* C22: at every moment of a collection every gathered resource, of every
\* kind, has a cloud_provider label that is not empty: the cloud field of
\* its upstream record (for a connector, of its cluster's record) when that
\* field is not empty, and "unknown" when it is.
C22_CloudProvider ==
    \A r \in Served :
        \A i \in 1..Len(req[r].resources) :
            LET x == req[r].resources[i]
                cloud == SourceRecord(x).Cloud
            IN  /\ "cloud_provider" \in DOMAIN x.Labels
                /\ x.Labels["cloud_provider"] # ""
                /\ cloud # "" => x.Labels["cloud_provider"] = cloud
                /\ cloud = "" => x.Labels["cloud_provider"] = "unknown"

\* A returned catalog holds, of each of the five kinds, a resource whose
\* record has an empty cloud field and is labelled "unknown", and a
\* resource labelled with the cloud of its record.
C22_Witness ==
    \E r \in Served :
        /\ obs[r].returned
        /\ KindsWith(req[r].resources, "unknown") = DOMAIN ParamKeys
        /\ \A k \in DOMAIN ParamKeys :
              \E i \in 1..Len(req[r].resources) :
                  /\ req[r].resources[i].ResourceType = k
                  /\ SourceRecord(req[r].resources[i]).Cloud # ""
                  /\ req[r].resources[i].Labels["cloud_provider"]
                       = SourceRecord(req[r].resources[i]).Cloud

\* The region label the record's region stands for: the string held by its
\* id field, "unknown" for every other shape.
RegionLabel(region) ==
    IF region.kind = "object"
    THEN IF "id" \in DOMAIN region.fields /\ region.fields["id"].t = "string"
         THEN region.fields["id"].v
         ELSE "unknown"
    ELSE "unknown"

\* C23: in a returned collection in which the upstream answered every
\* request, every Schema Registry record of every environment, whatever the
\* shape of its region, has its resource in the catalog, with the region
\* label the shape stands for, and no warning is logged for the listing.
C23_RegionAnyShape ==
    \A r \in Served :
        (obs[r].returned /\ obs[r].injected \subseteq Undecodable) =>
            \A env \in Environments :
                LET records == UpstreamRecords(SchemaRegistryPages(env.ID, upstream))
                IN  /\ <<env.ID, "schema_registry">> \notin obs[r].warned
                    /\ \A i \in 1..Len(records) :
                          \E j \in 1..Len(req[r].resources) :
                              /\ req[r].resources[j].ResourceType = "schema_registry"
                              /\ req[r].resources[j].ID = records[i].ID
                              /\ req[r].resources[j].Labels["region"]
                                   = RegionLabel(records[i].Region)

\* The Kafka cluster of environment e that the upstream lists the connector
\* name under.
ListedUnder(e, name) ==
    CHOOSE c \in ClusterIDs(e) : name \in Range(ConnectorNames(e.ID, c))

\* The place of the last Kafka resource before place j of the catalog, 0
\* when there is none.
ParentPos(resources, j) ==
    Max({i \in 1..(j - 1) : resources[i].ResourceType = "kafka"})

\* C24: at every moment of a collection every gathered connector resource
\* has its name as id and as connector_name label, the id of the cluster
\* the upstream lists it under as cluster_id, and the Kafka resource of that
\* cluster before it in the catalog, whose cloud_provider, region and
\* environment_name labels it carries.
C24_ConnectorLabels ==
    \A r \in Served :
        \A j \in 1..Len(req[r].resources) :
            LET x == req[r].resources[j]
                p == ParentPos(req[r].resources, j)
            IN  x.ResourceType = "connector" =>
                    /\ x.Labels["connector_name"] = x.ID
                    /\ x.Labels["cluster_id"] = ListedUnder(EnvOf(x), x.ID)
                    /\ p > 0
                    /\ LET y == req[r].resources[p]
                       IN  /\ y.ID = x.Labels["cluster_id"]
                           /\ x.Labels["cloud_provider"] = y.Labels["cloud_provider"]
                           /\ x.Labels["region"] = y.Labels["region"]
                           /\ x.Labels["environment_name"]
                                = y.Labels["environment_name"]
                    /\ DOMAIN x.Labels = {"cloud_provider", "environment_name",
                                          "connector_name", "cluster_id", "region"}

\* A returned catalog holds conn-a of lkc-1, with the cloud aws of the first
\* environment's cluster, and conn-c of lkc-3, whose cloud is unknown, with
\* the region and the environment of lkc-3.
C24_Witness ==
    \E r \in Served :
        /\ obs[r].returned
        /\ \E i, j \in 1..Len(req[r].resources) :
              /\ req[r].resources[i]
                   = Resource("conn-a", "connector",
                              [cloud_provider |-> "aws",
                               environment_name |-> "prod",
                               connector_name |-> "conn-a",
                               cluster_id |-> "lkc-1",
                               region |-> "us-east-1"])
              /\ req[r].resources[j]
                   = Resource("conn-c", "connector",
                              [cloud_provider |-> "unknown",
                               environment_name |-> "staging",
                               connector_name |-> "conn-c",
                               cluster_id |-> "lkc-3",
                               region |-> "europe-west1"])

\* The labels every resource of a kind carries.
RequiredLabels ==
    ("kafka" :> {"cloud_provider", "environment_name", "cluster_name"})
    @@ ("schema_registry" :> {"cloud_provider", "environment_name"})
    @@ ("ksql" :> {"cloud_provider", "environment_name", "name"})
    @@ ("compute_pool" :> {"cloud_provider", "environment_name"})
    @@ ("connector" :> {"cloud_provider", "environment_name", "connector_name",
                        "cluster_id"})

\* The listing that a warning is about: of an environment and a kind, or
\* the connector listing of a cluster.
WarnedOf(w, x) ==
    /\ w[1] = EnvOf(x).ID
    /\ w[2] = x.ResourceType
    /\ Len(w) = 3 => w[3] = x.Labels["cluster_id"]

\* C25: at every moment of a collection, and in the cache, every resource
\* is of one of the five kinds, has an id and carries its environment_name,
\* a cloud_provider that is not empty and all labels of its kind; of a
\* listing that a warning was logged for, the catalog holds no resource.
C25_NoPartialResource ==
    \A r \in Served :
        LET whole(x) ==
                /\ x.ResourceType \in DOMAIN RequiredLabels
                /\ x.ID # ""
                /\ RequiredLabels[x.ResourceType] \subseteq DOMAIN x.Labels
                /\ x.Labels["cloud_provider"] # ""
                /\ \E env \in Environments :
                       x.Labels["environment_name"] = env.Name
        IN  /\ \A i \in 1..Len(req[r].resources) :
                  /\ whole(req[r].resources[i])
                  /\ \A w \in obs[r].warned : ~WarnedOf(w, req[r].resources[i])
            /\ cacheKey \in DOMAIN items =>
                  \A i \in 1..Len(items[cacheKey].Value) :
                      whole(items[cacheKey].Value[i])

\* A collection in which the KSQL listing of the first environment and the
\* connector listing of lkc-1 failed returned and cached a catalog of
\* resources of the four other kinds.
C25_Witness ==
    \E r \in Served :
        /\ obs[r].returned
        /\ obs[r].warned = {<<"env-1", "ksql">>, <<"env-1", "connector", "lkc-1">>}
        /\ cacheKey \in DOMAIN items
        /\ items[cacheKey].Value = req[r].resources
        /\ {req[r].resources[i].ResourceType : i \in 1..Len(req[r].resources)}
             = {"kafka", "schema_registry", "compute_pool", "connector"}

(***************************************************************************)
(* Properties of the cache's lock, checked under SpecLock.                 *)
(***************************************************************************)
\* The goroutine is between the return of Lock or RLock and the deferred
\* Unlock or RUnlock of the operation it called.
Inside(g) == goroutines[g].pc \in {"inside", "return"}

Reader(g) == Inside(g) /\ goroutines[g].op = "Get"

Writer(g) == Inside(g) /\ goroutines[g].op \in {"Set", "Delete", "cleanup"}

\* C26: a goroutine inside Set, Delete or cleanup is inside alone; the lock
\* is held in shared mode by as many goroutines as are inside Get and in
\* exclusive mode exactly when one is inside Set, Delete or cleanup, so it
\* is free when no goroutine is inside; the step in which an operation
\* returns gives back what the operation took, and the map changes only in
\* the body of a goroutine that holds the lock in exclusive mode.
C26_LockDiscipline ==
    /\ [](/\ \A g, h \in DOMAIN goroutines :
                (g # h /\ Writer(g)) => ~Inside(h)
          /\ mu.readerCount = Cardinality({g \in DOMAIN goroutines : Reader(g)})
          /\ mu.locked = (\E g \in DOMAIN goroutines : Writer(g))
          /\ (\A g \in DOMAIN goroutines : ~Inside(g)) =>
                (mu.readerCount = 0 /\ ~mu.locked))
    /\ [][/\ \A g \in DOMAIN goroutines :
                (goroutines[g].pc = "return" /\ goroutines'[g].pc = "idle") =>
                    IF goroutines[g].op = "Get"
                    THEN /\ mu'.readerCount = mu.readerCount - 1
                         /\ mu'.locked = mu.locked
                    ELSE /\ mu.locked /\ ~mu'.locked
                         /\ mu'.readerCount = mu.readerCount
          /\ items' # items =>
                \E g \in DOMAIN goroutines :
                    /\ goroutines[g].pc = "inside"
                    /\ goroutines'[g].pc = "return"
                    /\ Writer(g)
                    /\ mu.locked
                    /\ mu.readerCount = 0]_vars

\* Two goroutines are inside Get together, one of them having found the
\* entry that a Set had stored, while startCleanupTimer waits in Lock.
C26_Witness ==
    \E g, h \in DOMAIN goroutines :
        /\ g # h
        /\ Reader(g)
        /\ Reader(h)
        /\ goroutines[g].found
        /\ mu.readerCount = 2
        /\ 0 \in DOMAIN goroutines
        /\ goroutines[0].pc = "acquire"
        /\ mu.waiting = 1

(***************************************************************************)
(* Properties of the server, checked under SpecServe.                      *)
(***************************************************************************)
\* The Authorization header is "Bearer " followed by the configured key.
Authorized(request) ==
    /\ Len(request.authorization) = Len(Bearer) + Len(ApiKey)
    /\ \A i \in 1..Len(Bearer) : request.authorization[i] = Bearer[i]
    /\ \A i \in 1..Len(ApiKey) :
          request.authorization[Len(Bearer) + i] = ApiKey[i]

\* The request has been answered.
Handled(r) == req[r].pc = "done"

\* C27: a /discovery request whose Authorization header is not "Bearer "
\* followed by the configured key is answered 401 in one step that leaves
\* the cache as it was; it makes no cache.Get call, no GetAllResources call,
\* no upstream request and no write, and receives no catalog.
C27_Unauthorized ==
    /\ [](\A r \in Served :
            ( /\ httpReq[r].path = "/discovery"
              /\ ~Authorized(httpReq[r]) ) =>
                /\ req[r].pc \in {"idle", "done"}
                /\ obs[r] = NoObs
                /\ req[r].resources = << >>
                /\ Handled(r) => req[r].answer.status = 401)
    /\ [][\A r \in Served :
            (~Handled(r) /\ Handled(r)' /\ req'[r].answer.status = 401) =>
                /\ items' = items
                /\ obs' = obs]_vars

\* A /discovery request whose token is the configured key followed by one
\* more character was answered 401 while the catalog of the authorized
\* request was live in the cache.
C27_Witness ==
    /\ Handled(1)
    /\ req[1].answer.status = 200
    /\ Live(items, now)
    /\ httpReq[2] = HttpRequest("/discovery", Bearer \o <<"k", "1", "1">>)
    /\ Handled(2)
    /\ req[2].answer = Answer(401, "Unauthorized: Invalid token")

\* C28: a /health request, whatever its Authorization header and whatever
\* the cache holds, can be answered at once and is answered 200 with the
\* body OK, in one step that leaves the cache as it was; it makes no
\* cache.Get call, no GetAllResources call, no upstream request and no
\* write.
C28_Health ==
    /\ [](\A r \in Served :
            httpReq[r].path = "/health" =>
                /\ req[r].pc \in {"idle", "done"}
                /\ obs[r] = NoObs
                /\ req[r].resources = << >>
                /\ ~Handled(r) => ENABLED ServeHTTP(r)
                /\ Handled(r) => req[r].answer = Answer(200, "OK"))
    /\ [][\A r \in Served :
            (httpReq[r].path = "/health" /\ ~Handled(r) /\ Handled(r)') =>
                /\ items' = items
                /\ obs' = obs
                /\ faultsLeft' = faultsLeft]_vars

\* A /health request without an Authorization header was answered 200 OK
\* while the cache held the expired entry of the authorized request.
C28_Witness ==
    /\ httpReq[2] = HttpRequest("/health", << >>)
    /\ Handled(2)
    /\ req[2].answer = Answer(200, "OK")
    /\ obs[1].write = 1
    /\ cacheKey \in DOMAIN items
    /\ ~Live(items, now)

(***************************************************************************)
(* Properties of the configuration, checked under SpecConfig.              *)
(***************************************************************************)
Loaded == last.op = "Load"

\* C29: Load returns no error; the cache duration is n minutes when
\* CACHE_DURATION is set to a string that strconv.Atoi parses as n, and 30
\* minutes when it is not set, empty or not such a string.
C29_LoadCacheDuration ==
    Loaded =>
        LET str == Getenv(last.environ, "CACHE_DURATION")
            ttl == last.out.cfg.CacheDuration
        IN  /\ ~last.out.err
            /\ ~ttl.wrapped
            /\ IF str # << >> /\ ~Atoi(str).err
               THEN ttl.minutes = Atoi(str).n
               ELSE ttl.minutes = 30

(***************************************************************************)
(* Properties of formatResponse and the cached catalog, checked under      *)
(* Spec.                                                                   *)
(***************************************************************************)
\* The request whose write is the one numbered n.
WriterOf(n) == CHOOSE w \in Served : obs[w].write = n

\* Requests o and r were answered 200 from the same write of the cache.
SameEntry(o, r) ==
    /\ Answered(o)
    /\ Answered(r)
    /\ obs[r].seenLive
    /\ \/ obs[o].write = obs[r].seenWrite
       \/ obs[o].seenLive /\ obs[o].seenWrite = obs[r].seenWrite

C31_ArrayBody ==
    \A r \in Served : Answered(r) => obs[r].encoded = "array"

(***************************************************************************)
(* Properties of the sweep, checked under SpecCache.                       *)
(***************************************************************************)
\* The keys whose most recent Set has not been followed by a Delete and
\* whose expiry, the time of that Set plus its duration, has passed at t.
Overdue(t) ==
    {k \in Keys : hist[k].set /\ ~hist[k].deleted /\ t > hist[k].at + hist[k].ttl}

\* C32: a run of cleanup removes exactly the entries whose expiry has
\* passed when it runs, leaves key, value and expiry of every other entry
\* as they were, and removes no entry that Get returns.
C32_SweepFrame ==
    [][last'.op = "cleanup" =>
        /\ DOMAIN items' = (DOMAIN items) \ Overdue(now)
        /\ \A k \in DOMAIN items' :
              /\ items'[k] = items[k]
              /\ items'[k].Value = hist[k].v
              /\ items'[k].Expiration = hist[k].at + hist[k].ttl
        /\ \A k \in Keys :
              /\ Get(items, k, now).found => k \in DOMAIN items'
              /\ Get(items', k, now) = Get(items, k, now)]_vars

\* A sweep has removed an entry one instant after its expiry and has kept
\* another one at the instant of its expiry.
C32_Witness ==
    /\ last.op = "cleanup"
    /\ \E gone, kept \in Keys :
        /\ gone \notin DOMAIN items
        /\ gone \in DOMAIN noSweep
        /\ now = hist[gone].at + hist[gone].ttl + 1
        /\ kept \in DOMAIN items
        /\ now = items[kept].Expiration
        /\ Get(items, kept, now).found

(***************************************************************************)
(* SpecMiss: the requests of Spec with one query string that passes the    *)
(* parameter checks, so that every request that finds no live entry goes   *)
(* into GetAllResources, together with the others that found none.         *)
(***************************************************************************)
MissRequest(r) == DiscoveryHandlerOn(r, {Query(TB, << >>)})

NextMiss ==
    \/ \E r \in Reqs : MissRequest(r)
    \/ \E r \in Reqs : GetAllResourcesEnvironments(r)
    \/ \E r \in Reqs : GetAllResourcesLoop(r)
    \/ \E r \in Reqs : GetAllResourcesReturn(r)
    \/ Sweep
    \/ Tick

SpecMiss == Init /\ [][NextMiss]_vars

(***************************************************************************)
(* Properties of concurrent misses, checked under SpecMiss.                *)
(***************************************************************************)
\* The request's catalog holds the Schema Registries of exactly the
\* environments whose Schema Registry listing the upstream answered to this
\* request.
OwnRun(r) ==
    \A env \in Environments :
        IDsIn(req[r].resources, env, "schema_registry")
          = Kept(<<env.ID, "schema_registry">> \in obs[r].injected,
                 UpstreamIDs(SchemaRegistryPages(env.ID, upstream)))

\* C33: every request that finds no live entry runs its own collection,
\* whether or not others are collecting; every run that returns a catalog
\* writes the cache, replacing whatever entry is there with its own
\* catalog and the expiry of its own Set, so that the entry is the one of
\* the run that wrote last; and every request is answered with the
\* catalog of its own run.
C33_ConcurrentMisses ==
    /\ [](\A r \in Served :
            /\ (Valid(r) /\ ~obs[r].seenLive) => obs[r].ran = 1
            /\ obs[r].returned =>
                  /\ obs[r].write > 0
                  /\ \A o \in Served \ {r} : obs[o].write # obs[r].write
                  /\ OwnRun(r)
                  /\ req[r].answer
                       = Answer(200, formatResponse(req[r].resources,
                                                    Split(req[r].q.targets),
                                                    Str(req[r].q.prefix)))
            /\ (cacheKey \in DOMAIN items /\ obs[r].write = Writes(obs)
                   /\ obs[r].write > 0) =>
                  items[cacheKey].Value = req[r].resources)
    /\ [][\A r \in Served :
            (~obs[r].returned /\ obs'[r].returned) =>
                /\ obs'[r].write = Writes(obs) + 1
                /\ items' = (cacheKey :> Item(req[r].resources,
                                             now + cacheDuration))]_vars

\* Two requests missed together and the upstream failed a Schema Registry
\* listing of the second one only; the second one wrote the cache first,
\* the first one wrote it at a later time, and the entry is the first
\* one's, while each was answered with its own catalog.
C33_Witness ==
    /\ \A r \in Served : req[r].pc = "done"
    /\ obs[2].overlapped
    /\ obs[2].write = 1
    /\ obs[1].write = 2
    /\ obs[2].injected # {}
    /\ obs[1].injected = {}
    /\ req[1].resources # req[2].resources
    /\ req[1].answer # req[2].answer
    /\ cacheKey \in DOMAIN items
    /\ items[cacheKey] = Item(req[1].resources, now + cacheDuration)
    /\ now > 0

(***************************************************************************)
(* SpecDegraded: a first request whose sub-fetches the upstream may fail,  *)
(* any of them and all of them, and a second request that arrives after    *)
(* the first one was answered, at any time, and to which the upstream      *)
(* answers everything.                                                     *)
(***************************************************************************)
DegradedUpstream ==
    [srRegion |-> RegionObject([id |-> JString("us-west-2")]),
     faulty |-> Listings \ {"environments"},
     causes |-> {"status"},
     subCauses |-> {"status"}]

InitDegraded ==
    /\ items = New
    /\ now = 0
    /\ cacheDuration = MaxTTL
    /\ req = [r \in {1, 2} |-> IdleReq]
    /\ obs = [r \in {1, 2} |-> NoObs]
    /\ faultsLeft = mostFaults(GetEnvironments(NoFault).data)
    /\ upstream = DegradedUpstream
    /\ UnitIdle
    /\ LockIdle
    /\ HttpIdle

FirstCollects == DiscoveryHandlerOn(1, {Query(TA, PA)})

LaterRequest ==
    /\ req[1].pc = "done"
    /\ DiscoveryHandlerOn(2, {Query(TB, << >>)})

\* A loop iteration of the second request: the upstream answers.
LaterLoop == GetAllResourcesLoop(2) /\ faultsLeft' = faultsLeft

NextDegraded ==
    \/ FirstCollects
    \/ GetAllResourcesEnvironments(1)
    \/ GetAllResourcesLoop(1)
    \/ GetAllResourcesReturn(1)
    \/ LaterRequest
    \/ GetAllResourcesEnvironments(2)
    \/ LaterLoop
    \/ GetAllResourcesReturn(2)
    \/ Sweep
    \/ Tick

SpecDegraded == InitDegraded /\ [][NextDegraded]_vars

(***************************************************************************)
(* Properties of a degraded catalog, checked under SpecDegraded.           *)
(***************************************************************************)
\* C34: a run that returns a catalog writes it under the catalog's key
\* with the expiry now + ttl, whatever sub-fetches failed and also when the
\* catalog is empty; a request that arrives while that entry has not
\* expired is answered at once with the groups of that catalog, makes no
\* GetAllResources call and no sub-fetch and leaves the cache as it is; one
\* that arrives after the expiry collects anew.
C34_DegradedIsCached ==
    /\ [](\A r \in Served :
            (Answered(r) /\ obs[r].seenLive) =>
                /\ obs[r].ran = 0
                /\ obs[r].subFetches = 0
                /\ obs[r].warned = {}
                /\ req[r].resources = req[WriterOf(obs[r].seenWrite)].resources
                /\ req[r].answer.body
                     = formatResponse(req[WriterOf(obs[r].seenWrite)].resources,
                                      Split(req[r].q.targets),
                                      Str(req[r].q.prefix)))
    /\ [][\A r \in Served :
            /\ (~obs[r].returned /\ obs'[r].returned) =>
                  items' = (cacheKey :> Item(req[r].resources,
                                            now + cacheDuration))
            /\ (req[r].pc = "idle" /\ req'[r].pc # "idle") =>
                  IF cacheKey \in DOMAIN items
                     /\ now <= items[cacheKey].Expiration
                  THEN /\ req'[r].pc = "done"
                       /\ req'[r].answer.status = 200
                       /\ req'[r].resources = items[cacheKey].Value
                       /\ items' = items
                       /\ faultsLeft' = faultsLeft
                  ELSE /\ req'[r].pc = "GetEnvironments"
                       /\ obs'[r].ran = 1]_vars

\* The upstream failed every sub-fetch of the first request, whose empty
\* catalog was cached; the second request arrived at a later time, at the
\* instant of the entry's expiry, and was answered with no group although
\* the upstream would have answered it.
C34_Witness ==
    /\ obs[1].returned
    /\ req[1].resources = << >>
    /\ obs[1].warned # {}
    /\ Answered(2)
    /\ obs[2].seenLive
    /\ obs[2].seenWrite = obs[1].write
    /\ obs[2].ran = 0
    /\ req[2].answer.body = << >>
    /\ now > 0
    /\ cacheKey \in DOMAIN items
    /\ items[cacheKey] = Item(<< >>, now)

(***************************************************************************)
(* SpecDisconnect: two requests with a valid query, each on a              *)
(* connection that its caller may close while the request is being         *)
(* served.                                                                 *)
(***************************************************************************)
Connection(connected) == [path |-> "/discovery", connected |-> connected]

\* A collection that stops when the caller has gone.
AbortsWithCaller(connection) == ~connection.connected

\* makeRequest builds its request with http.NewRequest, without the
\* context of the caller's request, and the handler never looks at
\* r.Context(): the state of the caller's connection does not reach the
\* collection.
Aborts(connection) == FALSE

InitDisconnect ==
    /\ items = New
    /\ now = 0
    /\ cacheDuration = MaxTTL
    /\ req = [r \in {1, 2} |-> IdleReq]
    /\ obs = [r \in {1, 2} |-> NoObs]
    /\ faultsLeft = MaxFaults
    /\ upstream = ServiceUpstream
    /\ httpReq = [r \in {1, 2} |-> Connection(TRUE)]
    /\ UnitIdle
    /\ LockIdle

Arrive(r) == DiscoveryHandlerOn(r, {Query(TA, PA)})

\* The caller of a request that is being served closes the connection.
Disconnect(r) ==
    /\ req[r].pc \in Collecting
    /\ httpReq[r].connected
    /\ httpReq' = [httpReq EXCEPT ![r] = Connection(FALSE)]
    /\ UNCHANGED <<items, now, svcVars, unitVars, mu, goroutines>>

\* A collection that is given up: the request ends without a catalog,
\* without a write and without an answer.
Abandon(r) ==
    /\ req[r].pc \in Collecting
    /\ req' = [req EXCEPT ![r] = [@ EXCEPT !.pc = "done"]]
    /\ UNCHANGED <<items, now, cacheDuration, obs, faultsLeft, upstream,
                   unitVars, sideVars>>

\* The next step of the collection of request r.
Collect(r) ==
    IF Aborts(httpReq[r])
    THEN Abandon(r)
    ELSE \/ GetAllResourcesEnvironments(r)
         \/ GetAllResourcesLoop(r)
         \/ GetAllResourcesReturn(r)

NextDisconnect ==
    \/ \E r \in {1, 2} : Arrive(r)
    \/ \E r \in {1, 2} : Disconnect(r)
    \/ \E r \in {1, 2} : Collect(r)
    \/ Sweep
    \/ Tick

SpecDisconnect == InitDisconnect /\ [][NextDisconnect]_vars

(***************************************************************************)
(* Properties of a collection whose caller has gone, checked under         *)
(* SpecDisconnect.                                                         *)
(***************************************************************************)
\* The steps that a request inside GetAllResources has before it, at most.
StepsLeft(q) ==
    CASE q.pc = "GetEnvironments" ->
             Len(GetEnvironments(NoFault).data) + 2
      [] q.pc = "ProcessEnv" -> Len(q.environments) - q.i + 2
      [] OTHER -> 0

C36_RejectedTouchesNothing ==
    /\ [](\A r \in Served :
            (req[r].pc = "done" /\ req[r].answer.status = 400) =>
                /\ ParseQuery(req[r].q).bad
                /\ obs[r].gets = 1
                /\ obs[r].ran = 0
                /\ obs[r].subFetches = 0
                /\ obs[r].envFault = NoFault
                /\ ~obs[r].returned
                /\ obs[r].write = 0
                /\ req[r].resources = << >>)
    /\ [][\A r \in Served :
            /\ (req[r].pc = "idle" /\ req'[r].pc # "idle"
                   /\ ParseQuery(req'[r].q).bad) =>
                  /\ req'[r].pc = "done"
                  /\ req'[r].answer.status = 400
                  /\ items' = items
                  /\ now' = now
                  /\ faultsLeft' = faultsLeft
                  /\ \A o \in Served \ {r} : obs'[o] = obs[o]
            /\ (req[r].pc # "done" /\ req'[r].pc = "done"
                   /\ req'[r].answer.status = 400) => req[r].pc = "idle"]_vars

\* The second request was rejected when the cache held the expired entry
\* of the first one, which is still there.
C36_Witness ==
    /\ obs[1].write = 1
    /\ req[2].pc = "done"
    /\ req[2].answer.status = 400
    /\ ~obs[2].seenLive
    /\ obs[2].ran = 0
    /\ cacheKey \in DOMAIN items
    /\ now > items[cacheKey].Expiration
    /\ items[cacheKey].Value = req[1].resources

(***************************************************************************)
(* Properties of a listing that fails on one of its pages, checked under   *)
(* SpecCollect.                                                            *)
(***************************************************************************)
\* The pages of the listing of one kind in one environment.
PagesOf(kind, env) ==
    CASE kind = "kafka" -> KafkaPages(env.ID)
      [] kind = "schema_registry" -> SchemaRegistryPages(env.ID, upstream)
      [] kind = "ksql" -> KsqlPages(env.ID)
      [] kind = "compute_pool" -> ComputePoolPages(env.ID)

\* C37: of the listing of a kind in an environment, the catalog that a
\* collection returns holds either every record, in page order, or none:
\* every record when the upstream answered all its requests, none when it
\* failed one of them, the first or a later one, by the transport, by the
\* status or by a body that does not decode; and when the cluster listing
\* of an environment failed the catalog holds no connector of it.
C37_AllOrNothing ==
    \A r \in Served :
        obs[r].returned =>
            \A env \in Environments :
                /\ \A kind \in {"kafka", "schema_registry", "ksql",
                                 "compute_pool"} :
                      LET ids == IDsIn(req[r].resources, env, kind)
                          all == UpstreamIDs(PagesOf(kind, env))
                      IN  /\ ids \in {<< >>, all}
                          /\ <<env.ID, kind>> \in obs[r].injected => ids = << >>
                          /\ <<env.ID, kind>> \notin obs[r].injected => ids = all
                /\ <<env.ID, "kafka">> \in obs[r].injected =>
                      \A i \in 1..Len(req[r].resources) :
                          req[r].resources[i].ResourceType = "connector" =>
                              req[r].resources[i].Labels["environment_name"]
                                # env.Name

\* The second request of the cluster listing of env-2, the one for its
\* second page, was the only one to fail: the catalog that was returned
\* has no cluster of env-2, the one of the first page included, and no
\* connector of it, and everything else.
C37_Witness ==
    \E r \in Served :
        /\ obs[r].returned
        /\ obs[r].injected = {<<"env-2", "kafka">>}
        /\ obs[r].subFetches = 10
        /\ [i \in 1..Len(req[r].resources) |-> req[r].resources[i].ID]
             = <<"lkc-1", "conn-a", "lsrc-1", "lksqlc-1", "lksqlc-2", "lfcp-1",
                 "lsrc-2", "lfcp-2">>

====
